---- MODULE Spec2Model ----
(***************************************************************************)
(* A model of the tabix index code in src/paper/index.c: the reference     *)
(* dictionary (get_tid, tbx_seqnames), the record parser (tbx_parse1,      *)
(* get_intv), the build driver (tbx_index, tbx_index_build3,               *)
(* adjust_n_lvls) and the region parser (hts_parse_region).                *)
(*                                                                         *)
(* C strings are sequences of one-character strings.  A C offset p into a  *)
(* buffer s is the TLA+ index p + 1; reading at offset Len(s) yields NUL.  *)
(***************************************************************************)
EXTENDS Integers, Sequences, FiniteSets, TLC

VARIABLES
    conf,       \* tbx->conf: [preset, sc, bc, ec, meta_char, line_skip]
    dict,       \* tbx->dict: [alloc, map], map: name -> tid
    order,      \* ghost: the distinct names in the order they were first added
    last,       \* the last get_tid call: its arguments, result and the dict before
    seq,        \* the last tbx_seqnames result
    reg,        \* hts_parse_region: the region string s
    rflags,     \* hts_parse_region: the flags argument
    rout,       \* hts_parse_region: [called, ret, tid, beg, end]
    kstr,       \* the line buffer handed to tbx_parse1 / get_intv
    kstr0,      \* ghost: the line buffer before the call
    tintv,      \* tbx_intv_t: [ss, se, beg, end, tid]
    pcall,      \* the parser call made on the line: [fn, ret, is_add]
    rec,        \* ghost: the content the line was written from
    idx,        \* the index under construction (hts_idx_t), NoIdx before hts_idx_init
    pushed,     \* ghost: the records the builder accepted and the final offset
    qout,       \* the last call made on the index: [fn, ret, k, chunks]
    fp,         \* the input stream of a build: [lines, pos, tell, err]
    bld,        \* tbx_index / tbx_index_build3: the locals and the position in the code
    calls,      \* the calls a build made on the index, in order
    saved,      \* what hts_idx_save_as wrote, NoFile when nothing
    loaded      \* what index_load returned: [ret, conf, dict, loadfail, fail]

dictVars == <<conf, dict, order, last, seq>>
regVars == <<reg, rflags, rout>>
parseVars == <<kstr, kstr0, tintv, pcall, rec>>
idxVars == <<idx, pushed, qout>>
buildVars == <<fp, bld, calls, saved, loaded>>

vars == <<conf, dict, order, last, seq, reg, rflags, rout, kstr, kstr0, tintv, pcall, rec,
          idx, pushed, qout, fp, bld, calls, saved, loaded>>

----------------------------------------------------------------------------
(* Characters and C strings *)

NUL == "\\0"
TAB == "\t"

Digits == {"0", "1", "2", "3", "4", "5", "6", "7", "8", "9"}

DigitVal(c) ==
    CASE c = "0" -> 0 [] c = "1" -> 1 [] c = "2" -> 2 [] c = "3" -> 3
      [] c = "4" -> 4 [] c = "5" -> 5 [] c = "6" -> 6 [] c = "7" -> 7
      [] c = "8" -> 8 [] c = "9" -> 9

DigitChar(d) ==
    CASE d = 0 -> "0" [] d = 1 -> "1" [] d = 2 -> "2" [] d = 3 -> "3"
      [] d = 4 -> "4" [] d = 5 -> "5" [] d = 6 -> "6" [] d = 7 -> "7"
      [] d = 8 -> "8" [] d = 9 -> "9"

\* the decimal spelling of n >= 0
RECURSIVE Dec(_)
Dec(n) == IF n < 10 THEN <<DigitChar(n)>>
          ELSE Dec(n \div 10) \o <<DigitChar(n % 10)>>

\* the decimal spelling of an integer, with its sign
SDec(n) == IF n < 0 THEN <<"-">> \o Dec(-n) ELSE Dec(n)

\* the byte at C offset p of the NUL-terminated string s
At(s, p) == IF p >= 0 /\ p < Len(s) THEN s[p + 1] ELSE NUL

\* the n bytes of s starting at C offset p (kputsn(s + p, n, &ks))
Sub(s, p, n) == SubSeq(s, p + 1, p + n)

----------------------------------------------------------------------------
(* Presets *)

TBX_GENERIC == 0
TBX_SAM == 1
TBX_VCF == 2
TBX_GAF == 3
TBX_UCSC == 65536

\* conf->preset & 0xffff
PresetFmt(preset) == preset % 65536

\* conf->preset & TBX_UCSC
PresetUCSC(preset) == (preset \div TBX_UCSC) % 2 = 1

----------------------------------------------------------------------------
(* The reference dictionary *)

NullDict == [alloc |-> FALSE, map |-> <<>>]

kh_size(d) == Cardinality(DOMAIN d.map)

\* the tid written by "kh_val(d, k) = kh_size(d) - 1" after kh_put added the key
kh_put_val_off(d) == kh_size(d) + 1
kh_put_val(d) == (kh_size(d) + 1) - 1

\* get_tid(tbx, ss, is_add); fail names the allocation the call is refused:
\* "none", "init" (kh_init), "put" (kh_put) or "strdup".
get_tid(d, preset, ss, is_add, fail) ==
    IF PresetFmt(preset) = TBX_GAF THEN [ret |-> 0, dict |-> d]
    ELSE IF ~d.alloc /\ fail = "init" THEN [ret |-> -1, dict |-> d]
    ELSE LET d1 == [d EXCEPT !.alloc = TRUE] IN
         IF is_add = 1 THEN
            IF ss \in DOMAIN d1.map THEN [ret |-> d1.map[ss], dict |-> d1]
            ELSE IF fail \in {"put", "strdup"} THEN [ret |-> -1, dict |-> d1]
            ELSE LET v == kh_put_val(d1)
                     d2 == [d1 EXCEPT !.map = (ss :> v) @@ d1.map]
                 IN [ret |-> v, dict |-> d2]
         ELSE IF ss \in DOMAIN d1.map THEN [ret |-> d1.map[ss], dict |-> d1]
              ELSE [ret |-> -1, dict |-> d1]

\* tbx_name2id
tbx_name2id(d, preset, ss) == get_tid(d, preset, ss, 0, "none").ret

NoName == <<NUL>>

\* tbx_seqnames: n, the names array (NoName where calloc's NULL was never
\* overwritten) and whether both assertions held
tbx_seqnames(d) ==
    IF ~d.alloc THEN [n |-> 0, names |-> <<>>, asserts |-> TRUE]
    ELSE LET m == kh_size(d)
             names == [tid \in 1..m |->
                         IF \E k \in DOMAIN d.map : d.map[k] = tid - 1
                         THEN CHOOSE k \in DOMAIN d.map : d.map[k] = tid - 1
                         ELSE NoName]
         IN [n |-> m, names |-> names,
             asserts |-> /\ \A k \in DOMAIN d.map : d.map[k] < m
                         /\ \A tid \in 1..m : names[tid] # NoName]

\* the values the variables hold before any call
NoCall == [op |-> "none", ss |-> <<>>, is_add |-> 0, fail |-> "none", ret |-> 0,
           before |-> NullDict]
NoSeq == [called |-> FALSE, n |-> 0, names |-> <<>>, asserts |-> TRUE]

MkConf(preset, sc, bc, ec) ==
    [preset |-> preset, sc |-> sc, bc |-> bc, ec |-> ec, meta_char |-> "#",
     line_skip |-> 0]

DictIdle ==
    /\ conf = MkConf(TBX_VCF, 1, 2, 0)
    /\ dict = NullDict
    /\ order = <<>>
    /\ last = NoCall
    /\ seq = NoSeq

----------------------------------------------------------------------------
(* C library calls on NUL-terminated buffers.  An offset NULL (-1) is the   *)
(* null pointer.                                                            *)

NULL == -1

IsSpace(c) == c \in {" ", TAB, "\n"}

\* line[p] = c; the terminator at offset Len(s) only ever receives NUL
Poke(s, p, c) == IF p >= 0 /\ p < Len(s) THEN [s EXCEPT ![p + 1] = c] ELSE s

\* strchr(s + p, c): the first offset q >= p with s[q] = c before the NUL
RECURSIVE strchr(_, _, _)
strchr(s, p, c) ==
    IF At(s, p) = c THEN p
    ELSE IF At(s, p) = NUL THEN NULL
    ELSE strchr(s, p + 1, c)

\* whether the literal lit is a prefix of the string at s + p (strncmp == 0)
RECURSIVE strncmp_eq(_, _, _)
strncmp_eq(s, p, lit) ==
    IF lit = <<>> THEN TRUE
    ELSE IF At(s, p) # lit[1] THEN FALSE
    ELSE strncmp_eq(s, p + 1, Tail(lit))

\* strcmp(lit, s + p) == 0
strcmp_eq(s, p, lit) == strncmp_eq(s, p, lit) /\ At(s, p + Len(lit)) = NUL

\* strstr(s + p, lit): the first offset at which lit occurs before the NUL
RECURSIVE strstr(_, _, _)
strstr(s, p, lit) ==
    IF strncmp_eq(s, p, lit) THEN p
    ELSE IF At(s, p) = NUL THEN NULL
    ELSE strstr(s, p + 1, lit)

HexVal(c) ==
    CASE c \in Digits -> DigitVal(c)
      [] c \in {"a", "A"} -> 10 [] c \in {"b", "B"} -> 11 [] c \in {"c", "C"} -> 12
      [] c \in {"d", "D"} -> 13 [] c \in {"e", "E"} -> 14 [] c \in {"f", "F"} -> 15
      [] OTHER -> 99

RECURSIVE SkipWs(_, _)
SkipWs(s, p) == IF IsSpace(At(s, p)) THEN SkipWs(s, p + 1) ELSE p

RECURSIVE ScanBase(_, _, _, _, _)
ScanBase(s, p, base, n, digits) ==
    IF HexVal(At(s, p)) < base
    THEN ScanBase(s, p + 1, base, n * base + HexVal(At(s, p)), digits + 1)
    ELSE [n |-> n, digits |-> digits, p |-> p]

\* strtoll(s + p, &endp, base) for base 0 or 10: white space is skipped, a sign
\* taken, base 0 reads a leading "0x" as hexadecimal and a leading "0" as
\* octal; with no digit read the value is 0 and endp is s + p.
strtoll(s, p, base) ==
    LET Ret(neg, r) ==
            IF r.digits = 0 THEN [val |-> 0, endp |-> p]
            ELSE [val |-> IF neg THEN -r.n ELSE r.n, endp |-> r.p]
        From(p0) ==
            LET p1 == IF At(s, p0) \in {"+", "-"} THEN p0 + 1 ELSE p0
                hex == /\ base = 0 /\ At(s, p1) = "0" /\ At(s, p1 + 1) \in {"x", "X"}
                       /\ HexVal(At(s, p1 + 2)) < 16
            IN Ret(At(s, p0) = "-",
                   ScanBase(s, IF hex THEN p1 + 2 ELSE p1,
                            IF hex THEN 16 ELSE IF base = 0 /\ At(s, p1) = "0" THEN 8 ELSE 10,
                            0, 0))
    IN From(SkipWs(s, p))

\* atoll(s + p)
atoll(s, p) == strtoll(s, p, 10).val

Max(a, b) == IF a < b THEN b ELSE a

----------------------------------------------------------------------------
(* tbx_parse1 *)

\* the largest number of alleles the ALT loop counts (line 258)
MAX_ALCNT == 65536

Lit_END == <<"E", "N", "D", "=">>
Lit_sEND == <<";", "E", "N", "D", "=">>
Lit_SVLEN == <<"S", "V", "L", "E", "N", "=">>
Lit_sSVLEN == <<";", "S", "V", "L", "E", "N", "=">>
Lit_LEN == <<"L", "E", "N">>
Lit_STAR == <<"<", "*", ">">>
Lit_NON_REF == <<"<", "N", "O", "N", "_", "R", "E", "F", ">">>

\* svlen_on_ref_for_vcf_alt(s, -1) (its body is not part of src/): a symbolic
\* allele <...> other than <*> and <NON_REF> takes its length from SVLEN
RECURSIVE StrEnd(_, _)
StrEnd(s, p) == IF At(s, p) = NUL THEN p ELSE StrEnd(s, p + 1)

svlen_on_ref_for_vcf_alt(s, p) ==
    /\ At(s, p) = "<"
    /\ At(s, StrEnd(s, p) - 1) = ">"
    /\ ~strcmp_eq(s, p, Lit_STAR)
    /\ ~strcmp_eq(s, p, Lit_NON_REF)

toupper_c(c) ==
    CASE c = "m" -> "M" [] c = "d" -> "D" [] c = "n" -> "N" [] OTHER -> c

\* the locals of tbx_parse1 at loop entry (lines 154-160); ctl is "loop" while
\* the for loop runs, "brk" after the break of line 331, "fail" after an early
\* return -1
P1Start(line) ==
    [line |-> line, b |-> 0, id |-> 1, ss |-> NULL, se |-> NULL,
     beg |-> -1, end |-> -1, getlen |-> 0, alcnt |-> 0, use_svlen |-> 0,
     svlenals |-> {}, lenpos |-> -1, reflen |-> 0, svlen |-> 0, fmtlen |-> 0,
     ctl |-> "loop"]

\* lines 168-185: the GAF path, node by node
RECURSIVE GafNodes(_, _, _)
GafNodes(st, s, i) ==
    LET Node(r) ==
            GafNodes(IF st.beg = -1 THEN [st EXCEPT !.beg = r.val, !.end = r.val]
                     ELSE [st EXCEPT !.beg = IF r.val < st.beg THEN r.val ELSE st.beg,
                                     !.end = IF r.val > st.end THEN r.val ELSE st.end],
                     r.endp + 1, i)
    IN IF s >= i THEN st ELSE Node(strtoll(st.line, s, 0))

\* line 204: "if (intv->end < 1) intv->end = 1"
ClampEnd(end) == IF end < 1 THEN 1 ELSE end

\* lines 187-204: the begin column of every preset but GAF
BegColumn(cf, st, i) ==
    LET ucsc == PresetUCSC(cf.preset)
        Read(r) ==
            LET end0 == IF cf.bc <= cf.ec THEN r.val ELSE st.end
                beg1 == IF ~ucsc THEN r.val - 1 ELSE r.val
                end1 == IF ucsc /\ cf.bc <= cf.ec THEN end0 + 1 ELSE end0
            IN IF r.endp = st.b
               THEN [st EXCEPT !.beg = r.val, !.end = end0, !.ctl = "fail"]
               ELSE [st EXCEPT !.beg = IF beg1 < 0 THEN 0 ELSE beg1,
                               !.end = ClampEnd(end1)]
    IN Read(strtoll(st.line, st.b, 0))

\* lines 208-212: the end column of the GENERIC preset
EndColumn(st, i) ==
    LET Read(r) == IF r.endp = st.b THEN [st EXCEPT !.end = r.val, !.ctl = "fail"]
                   ELSE [st EXCEPT !.end = r.val]
    IN Read(strtoll(st.line, st.b, 0))

\* lines 214-225: the CIGAR column of the SAM preset
RECURSIVE CigarLen(_, _, _, _)
CigarLen(line, s, i, l) ==
    LET Op(r) == CigarLen(line, r.endp + 1, i,
                          IF toupper_c(At(line, r.endp)) \in {"M", "D", "N"}
                          THEN l + r.val ELSE l)
    IN IF s >= i THEN l ELSE Op(strtoll(line, s, 10))

CigarColumn(st, i) ==
    LET End(l) == [st EXCEPT !.end = st.beg + (IF l = 0 THEN 1 ELSE l)]
    IN End(CigarLen(st.line, st.b, i, 0))

\* lines 227-230: REF
RefColumn(st, i) ==
    [st EXCEPT !.end = IF st.b < i THEN st.beg + (i - st.b) ELSE st.end,
               !.alcnt = st.alcnt + 1,
               !.reflen = i - st.b]

\* lines 236-258: one turn of the do-while over the ALT alleles
RECURSIVE AltLoop(_, _)
AltLoop(st, s) ==
    LET Turn(t, alcnt) ==
            LET Allele(line1) ==
                    LET Note(onref, gvcf) ==
                            LET Next(st1) ==
                                    IF t # NULL /\ alcnt < MAX_ALCNT
                                    THEN AltLoop(st1, t + 1) ELSE st1
                            IN Next([st EXCEPT
                                       !.line = IF t # NULL THEN Poke(line1, t, ",") ELSE line1,
                                       !.alcnt = alcnt,
                                       !.svlenals = IF onref THEN @ \cup {alcnt - 1} ELSE @,
                                       !.use_svlen = IF onref THEN 1 ELSE @,
                                       !.getlen = IF ~onref /\ gvcf THEN 1 ELSE @])
                    IN Note(svlen_on_ref_for_vcf_alt(line1, s),
                            strcmp_eq(line1, s, Lit_STAR) \/ strcmp_eq(line1, s, Lit_NON_REF))
            IN Allele(IF t # NULL THEN Poke(st.line, t, NUL) ELSE st.line)
    IN Turn(strchr(st.line, s, ","), st.alcnt + 1)

\* a column that leaves its terminator overwritten
RestoreForgotten(st, i, c) == st

\* line[i] = c, the byte taken away while the field was read
Restore(st, i, c) == [st EXCEPT !.line = Poke(st.line, i, c)]

\* lines 231-259: ALT
AltColumn(st, i) ==
    Restore(AltLoop([st EXCEPT !.line = Poke(st.line, i, NUL)], st.b), i, At(st.line, i))

\* the value of key lit ("END=", "SVLEN=") of the INFO field at b: the offset
\* after "lit" when the field starts with it, else after ";lit" (lines 263-268)
InfoKey(line, b, lit, slit) ==
    LET After(s2) == IF s2 # NULL THEN s2 + Len(slit) ELSE NULL
        Found(s) == IF s = b THEN s + Len(lit)
                    ELSE IF s # NULL THEN After(strstr(line, b, slit))
                    ELSE NULL
    IN Found(strstr(line, b, lit))

\* lines 293-305: the SVLEN values, one per allele d
RECURSIVE SvlenLoop(_, _, _)
SvlenLoop(st, s, d) ==
    LET Value(t, a) ==
            LET Larger(tmp) ==
                    SvlenLoop([st EXCEPT !.svlen = IF @ < tmp THEN tmp ELSE @],
                              IF t # NULL THEN t + 1 ELSE NULL, d + 1)
            IN Larger(IF st.use_svlen = 1 /\ d \in st.svlenals
                      THEN (IF a < 0 THEN -a ELSE a)
                      ELSE 1)
    IN IF s = NULL \/ d >= st.alcnt THEN st
       ELSE Value(strchr(st.line, s, ","), atoll(st.line, s))

\* lines 269-285: INFO/END, taken when it is greater than beg
InfoEnd(st, line, s) ==
    LET Take(e) == IF e <= st.beg THEN st.end ELSE e
    IN IF s # NULL /\ At(line, s) # "." THEN Take(strtoll(line, s, 0).val) ELSE st.end

\* lines 260-306: INFO
InfoColumn(st, i) ==
    LET Keys(line1) ==
            SvlenLoop([st EXCEPT !.line = line1,
                                 !.end = InfoEnd(st, line1,
                                                 InfoKey(line1, st.b, Lit_END, Lit_sEND))],
                      InfoKey(line1, st.b, Lit_SVLEN, Lit_sSVLEN), 1)
    IN Restore(Keys(Poke(st.line, i, NUL)), i, At(st.line, i))

\* lines 311-328: the position of LEN among the FORMAT keys
RECURSIVE FormatLoop(_, _, _)
FormatLoop(st, s, pos) ==
    LET Key(t) ==
            IF t = NULL
            THEN (IF strcmp_eq(st.line, s, Lit_LEN) THEN [st EXCEPT !.lenpos = pos] ELSE st)
            ELSE IF strcmp_eq(Poke(st.line, t, NUL), s, Lit_LEN)
            THEN [st EXCEPT !.line = Poke(Poke(st.line, t, NUL), t, ":"), !.lenpos = pos]
            ELSE FormatLoop([st EXCEPT !.line = Poke(Poke(st.line, t, NUL), t, ":")],
                            t + 1, pos + 1)
    IN Key(strchr(st.line, s, ":"))

\* lines 307-332: FORMAT
FormatColumn(st, i) ==
    LET Break(st2) == IF st2.lenpos = -1 THEN [st2 EXCEPT !.ctl = "brk"] ELSE st2
    IN Break(Restore(FormatLoop([st EXCEPT !.line = Poke(st.line, i, NUL)], st.b, 0),
                     i, At(st.line, i)))

\* lines 338-348: the LEN value of one sample
RECURSIVE SampleLen(_, _, _, _)
SampleLen(line, s, d, lenpos) ==
    LET Skip(t) == IF t # NULL THEN SampleLen(line, t + 1, d + 1, lenpos) ELSE 0
    IN IF d > lenpos THEN 0
       ELSE IF d = lenpos THEN atoll(line, s)
       ELSE Skip(strchr(line, s, ":"))

\* lines 333-351: a sample column
SampleColumn(st, i) ==
    LET Larger(tmp) == [st EXCEPT !.line = Poke(Poke(st.line, i, NUL), i, At(st.line, i)),
                                  !.fmtlen = IF @ < tmp THEN tmp ELSE @]
    IN Larger(SampleLen(Poke(st.line, i, NUL), st.b, 0, st.lenpos))

\* lines 163-353: the field that ends at offset i. A REF column (id 4) is no
\* ALT column, so the chain that follows it (lines 231-351) then does nothing.
Field(cf, st, i) ==
    LET fmt == PresetFmt(cf.preset) IN
    IF st.id = cf.sc THEN [st EXCEPT !.ss = st.b, !.se = i]
    ELSE IF st.id = cf.bc
    THEN (IF fmt = TBX_GAF THEN GafNodes(st, st.b + 1, i) ELSE BegColumn(cf, st, i))
    ELSE IF fmt = TBX_GENERIC
    THEN (IF st.id = cf.ec THEN EndColumn(st, i) ELSE st)
    ELSE IF fmt = TBX_SAM
    THEN (IF st.id = 6 THEN CigarColumn(st, i) ELSE st)
    ELSE IF fmt = TBX_VCF
    THEN (IF st.id = 4 THEN RefColumn(st, i)
          ELSE IF st.id = 5 THEN AltColumn(st, i)
          ELSE IF st.id = 8 THEN InfoColumn(st, i)
          ELSE IF st.getlen = 1 /\ st.id = 9 THEN FormatColumn(st, i)
          ELSE IF st.id > 9 /\ st.getlen = 1 /\ st.lenpos # -1 THEN SampleColumn(st, i)
          ELSE st)
    ELSE st

\* lines 161-357: the for loop over the bytes of the line
RECURSIVE P1Loop(_, _, _, _)
P1Loop(cf, len, st, i) ==
    LET Step(st1) ==
            IF st1.ctl # "loop" THEN st1
            ELSE P1Loop(cf, len, [st1 EXCEPT !.b = i + 1, !.id = st.id + 1], i + 1)
    IN IF i > len \/ st.ctl # "loop" THEN st
       ELSE IF At(st.line, i) = TAB \/ At(st.line, i) = NUL THEN Step(Field(cf, st, i))
       ELSE P1Loop(cf, len, st, i + 1)

\* lines 358-366: the VCF end is the larger of the end found so far and
\* beg + max(reflen, svlen, fmtlen)
VcfEnd(st) ==
    LET tmp == IF st.reflen < st.svlen
               THEN (IF st.svlen < st.fmtlen THEN st.fmtlen ELSE st.svlen)
               ELSE (IF st.reflen < st.fmtlen THEN st.fmtlen ELSE st.reflen)
    IN IF st.end < tmp + st.beg THEN tmp + st.beg ELSE st.end

\* tbx_parse1(cf, len, line, intv): the return value, *intv and the line
\* buffer as the call leaves it
tbx_parse1(cf, len, line) ==
    LET Ret(st) ==
            LET end == IF st.ctl # "fail" /\ PresetFmt(cf.preset) = TBX_VCF
                       THEN VcfEnd(st) ELSE st.end
            IN [ret |-> IF st.ctl = "fail" THEN -1
                        ELSE IF st.ss = NULL \/ st.se = NULL \/ st.beg < 0 \/ end < 0
                        THEN -1 ELSE 0,
                intv |-> [ss |-> st.ss, se |-> st.se, beg |-> st.beg, end |-> end],
                line |-> st.line]
    IN Ret(P1Loop(cf, len, P1Start(line), 0))

\* get_intv(tbx, str, intv, is_add): the return value, *intv with its tid, the
\* dictionary and the line buffer afterwards
get_intv(d, cf, line, is_add, fail) ==
    LET Named(p, g) ==
            [ret |-> IF g.ret < 0 THEN -2
                     ELSE IF p.intv.beg >= 0 /\ p.intv.end >= 0 THEN 0 ELSE -1,
             intv |-> p.intv, tid |-> g.ret, dict |-> g.dict,
             line |-> Poke(Poke(p.line, p.intv.se, NUL), p.intv.se, At(p.line, p.intv.se))]
        Parsed1(p) ==
            IF p.ret = 0
            THEN Named(p, IF PresetFmt(cf.preset) = TBX_GAF THEN [ret |-> 0, dict |-> d]
                          ELSE get_tid(d, cf.preset,
                                       Sub(p.line, p.intv.ss, p.intv.se - p.intv.ss),
                                       is_add, fail))
            ELSE [ret |-> -1, intv |-> p.intv, tid |-> -1, dict |-> d, line |-> p.line]
    IN Parsed1(tbx_parse1(cf, Len(line), line))

----------------------------------------------------------------------------
(* 64-bit integers. TLC's integers are 32 bits wide, so an int64_t is four *)
(* 16-bit limbs, least significant first, in two's complement.             *)

LimbBase == 65536
LimbTop == 32768

W64(n) == <<n % LimbBase, n \div LimbBase, 0, 0>>

W64_MAX == <<LimbBase - 1, LimbBase - 1, LimbBase - 1, LimbTop - 1>>

\* a * m + c modulo 2^64 for small m and c, and the part carried out
WMulAdd(a, m, c) ==
    LET t1 == a[1] * m + c
        t2 == a[2] * m + (t1 \div LimbBase)
        t3 == a[3] * m + (t2 \div LimbBase)
        t4 == a[4] * m + (t3 \div LimbBase)
    IN [val |-> <<t1 % LimbBase, t2 % LimbBase, t3 % LimbBase, t4 % LimbBase>>,
        carry |-> t4 \div LimbBase]

WNeg(a) == a[4] >= LimbTop

\* a < b as unsigned numbers
WBelow(a, b) ==
    \/ a[4] < b[4]
    \/ a[4] = b[4] /\ a[3] < b[3]
    \/ a[4] = b[4] /\ a[3] = b[3] /\ a[2] < b[2]
    \/ a[4] = b[4] /\ a[3] = b[3] /\ a[2] = b[2] /\ a[1] < b[1]

\* a < b as int64_t
WLess(a, b) ==
    IF WNeg(a) # WNeg(b) THEN WNeg(a) ELSE WBelow(a, b)

RECURSIVE Pow2(_)
Pow2(k) == IF k = 0 THEN 1 ELSE 2 * Pow2(k - 1)

\* (int64_t)1 << k, 0 <= k < 64
WPow2(k) == [j \in 1..4 |-> IF j = (k \div 16) + 1 THEN Pow2(k % 16) ELSE 0]

\* the decimal spelling of a as an unsigned number
WDiv10(a) ==
    LET r4 == a[4] % 10
        r3 == (r4 * LimbBase + a[3]) % 10
        r2 == (r3 * LimbBase + a[2]) % 10
    IN [quot |-> <<(r2 * LimbBase + a[1]) \div 10, (r3 * LimbBase + a[2]) \div 10,
                   (r4 * LimbBase + a[3]) \div 10, a[4] \div 10>>,
        rem |-> (r2 * LimbBase + a[1]) % 10]

RECURSIVE WDec(_)
WDec(a) ==
    IF a[2] = 0 /\ a[3] = 0 /\ a[4] = 0 /\ a[1] < 10 THEN <<DigitChar(a[1])>>
    ELSE WDec(WDiv10(a).quot) \o <<DigitChar(WDiv10(a).rem)>>

\* the digits of strtoll(.., 10) into an int64_t: LLONG_MAX once the value
\* no longer fits
RECURSIVE WScan(_, _, _, _)
WScan(s, p, acc, digits) ==
    LET Shift(r) ==
            WScan(s, p + 1, IF r.carry # 0 \/ WNeg(r.val) THEN W64_MAX ELSE r.val, digits + 1)
    IN IF At(s, p) \in Digits
       THEN (IF acc = W64_MAX THEN WScan(s, p + 1, acc, digits + 1)
             ELSE Shift(WMulAdd(acc, 10, DigitVal(At(s, p)))))
       ELSE [val |-> acc, digits |-> digits]

\* strtoll(s + p, NULL, 10) as an int64_t: [neg, mag], the value being -mag
\* when neg
strtoll64(s, p) ==
    LET From(p0) ==
            LET Signed(r) == [neg |-> At(s, p0) = "-" /\ r.val # W64(0), mag |-> r.val]
            IN Signed(WScan(s, IF At(s, p0) \in {"+", "-"} THEN p0 + 1 ELSE p0, W64(0), 0))
    IN From(SkipWs(s, p))

----------------------------------------------------------------------------
(* The number of levels of a CSI index (lines 465-501) *)

TBX_MAX_SHIFT == 31
HTS_FMT_CSI == 0
HTS_FMT_TBI == 2

Lit_contig == <<"#", "#", "c", "o", "n", "t", "i", "g">>
Lit_length == <<"l", "e", "n", "g", "t", "h">>
Lit_SQ == <<"@", "S", "Q">>
Lit_LN == <<TAB, "L", "N", ":">>

\* *max_ref_len after "if (*max_ref_len < len) *max_ref_len = len"
RaiseTo(max_ref_len, len) ==
    IF ~len.neg /\ WLess(max_ref_len, len.mag) THEN len.mag ELSE max_ref_len

RECURSIVE SkipEq(_, _)
SkipEq(s, p) == IF At(s, p) \in {" ", "="} THEN SkipEq(s, p + 1) ELSE p

\* adjust_max_ref_len_vcf(str, &max_ref_len): the new *max_ref_len
adjust_max_ref_len_vcf(s, max_ref_len) ==
    LET Found(ptr) == IF ptr = NULL THEN max_ref_len
                      ELSE RaiseTo(max_ref_len, strtoll64(s, SkipEq(s, ptr + 6)))
    IN IF ~strncmp_eq(s, 0, Lit_contig) THEN max_ref_len
       ELSE Found(strstr(s, 8, Lit_length))

\* adjust_max_ref_len_sam(str, &max_ref_len): the new *max_ref_len
adjust_max_ref_len_sam(s, max_ref_len) ==
    LET Found(ptr) == IF ptr = NULL THEN max_ref_len
                      ELSE RaiseTo(max_ref_len, strtoll64(s, ptr + 4))
    IN IF ~strncmp_eq(s, 0, Lit_SQ) THEN max_ref_len
       ELSE Found(strstr(s, 3, Lit_LN))

\* hts_bin_maxpos(min_shift, n_lvls) (hts.h; its body is not part of src/):
\* max_pos = 1 << (min_shift + 3 n_lvls)
hts_bin_maxpos(min_shift, n_lvls) == WPow2(min_shift + 3 * n_lvls)

\* the loop of line 499. A signed overflow of "s <<= 3" is undefined: a build
\* either wraps it (ub = "wrap") or traps on it (ub = "trap"); once s has
\* wrapped to 0 the loop condition stays true and the loop never ends ("hang")
RECURSIVE AdjustLoop(_, _, _, _)
AdjustLoop(n_lvls, s, max_len, ub) ==
    LET Shifted(r) ==
            IF (WNeg(s) \/ r.carry # 0 \/ WNeg(r.val)) /\ ub = "trap"
            THEN [exit |-> "trap", n_lvls |-> n_lvls]
            ELSE AdjustLoop(n_lvls + 1, r.val, max_len, ub)
    IN IF ~WLess(s, max_len) THEN [exit |-> "return", n_lvls |-> n_lvls]
       ELSE IF s = W64(0) THEN [exit |-> "hang", n_lvls |-> n_lvls]
       ELSE Shifted(WMulAdd(s, 8, 0))

\* adjust_n_lvls(min_shift, n_lvls, max_len): how the call ends and the value
\* returned. "max_len += 256" overflows (undefined) above LLONG_MAX - 256.
adjust_n_lvls(min_shift, n_lvls, max_len, ub) ==
    LET Grown(m) ==
            IF ~WNeg(max_len) /\ WNeg(m) /\ ub = "trap"
            THEN [exit |-> "trap", n_lvls |-> n_lvls]
            ELSE AdjustLoop(n_lvls, hts_bin_maxpos(min_shift, n_lvls), m, ub)
    IN Grown(WMulAdd(max_len, 1, 256).val)

\* line 538: (int64_t)100*1024*1024*1024 = 25 * 2^32
DefaultMaxRefLen == <<0, 0, 25, 0>>

----------------------------------------------------------------------------
(* The index builder: hts_idx_init, hts_idx_push, hts_idx_finish and the   *)
(* query (hts.c; only struct hts_idx_t, lines 28-45, is part of src/).     *)
(* They follow the design document: bin numbering, builder transitions,    *)
(* finish, query.                                                          *)

NoOff == -1
NoBin == -1

\* p >> k for 0 <= p < 2^31
Shr(p, k) == IF k >= 31 THEN 0 ELSE p \div Pow2(k)

first_bin(lvl) == (Pow2(3 * lvl) - 1) \div 7

n_bins(n_lvls) == (Pow2(3 * (n_lvls + 1)) - 1) \div 7

\* the bin of level lvl (root 0, leaves n_lvls) that holds position p
level_bin(ix, lvl, p) ==
    first_bin(lvl) + Shr(p, ix.min_shift + 3 * (ix.n_lvls - lvl))

\* the smallest bin that holds [beg, end)
bin_for_interval(ix, beg, end) ==
    LET fit == {lvl \in 0..ix.n_lvls : level_bin(ix, lvl, beg) = level_bin(ix, lvl, end - 1)}
    IN IF fit = {} THEN 0
       ELSE level_bin(ix, CHOOSE lvl \in fit : \A m \in fit : m <= lvl, beg)

overlapping_bins(ix, beg, end) ==
    UNION {level_bin(ix, lvl, beg)..level_bin(ix, lvl, end - 1) : lvl \in 0..ix.n_lvls}

first_leaf(ix, pos) == Shr(pos, ix.min_shift)

\* the meta bin of an index
meta_bin(ix) == ix.n_bins + 1

NoMeta == [l_meta |-> 0, x |-> <<>>, names |-> <<>>]

\* hts_idx_init(n, fmt, offset0, min_shift, n_lvls)
hts_idx_init(fmt, offset0, min_shift, n_lvls) ==
    [fmt |-> fmt, min_shift |-> min_shift, n_lvls |-> n_lvls, n_bins |-> n_bins(n_lvls),
     n |-> 0, bidx |-> <<>>, lidx |-> <<>>, meta |-> NoMeta,
     z |-> [last_bin |-> NoBin, save_bin |-> NoBin, last_coor |-> -1,
            last_tid |-> -1, save_tid |-> -1, finished |-> 0,
            last_off |-> offset0, save_off |-> offset0,
            off_beg |-> offset0, off_end |-> offset0,
            n_mapped |-> 0, n_unmapped |-> 0]]

NoBins == [b \in {} |-> [loff |-> NoOff, list |-> <<>>]]

\* the per-reference tables grown up to index tid
GrowTo(ix, tid) ==
    IF tid < ix.n THEN ix
    ELSE [ix EXCEPT !.n = tid + 1,
                    !.bidx = @ \o [k \in 1..(tid + 1 - ix.n) |-> NoBins],
                    !.lidx = @ \o [k \in 1..(tid + 1 - ix.n) |-> <<>>]]

\* the chunk list of bin b of one reference, with chunk c appended
InsertChunk(bins, b, c) ==
    IF b \in DOMAIN bins THEN [bins EXCEPT ![b].list = Append(@, c)]
    ELSE [k \in DOMAIN bins \cup {b} |->
            IF k = b THEN [loff |-> NoOff, list |-> <<c>>] ELSE bins[k]]

\* the chunk (save_off, voff) of the run that ends, into bin save_bin of
\* reference save_tid
FlushRun(ix, voff) ==
    IF ix.z.save_tid < 0 THEN ix
    ELSE [ix EXCEPT !.bidx[ix.z.save_tid + 1] =
                        InsertChunk(@, ix.z.save_bin, <<ix.z.save_off, voff>>)]

\* the two chunks of the meta bin of the reference that ends
WriteMeta(ix) ==
    IF ix.z.last_tid < 0 THEN ix
    ELSE [ix EXCEPT !.bidx[ix.z.last_tid + 1] =
                        [k \in DOMAIN @ \cup {meta_bin(ix)} |->
                            IF k = meta_bin(ix)
                            THEN [loff |-> NoOff,
                                  list |-> <<<<ix.z.off_beg, ix.z.off_end>>,
                                             <<ix.z.n_mapped, ix.z.n_unmapped>>>>]
                            ELSE @[k]]]

\* L[l] = min(L[l] or infinity, voff) for the leaves lo..hi
TouchLeaves(lin, lo, hi, voff) ==
    [k \in 1..(IF Len(lin) < hi + 1 THEN hi + 1 ELSE Len(lin)) |->
        IF k - 1 >= lo /\ k - 1 <= hi
        THEN (IF k <= Len(lin) /\ lin[k] # NoOff /\ lin[k] < voff THEN lin[k] ELSE voff)
        ELSE IF k <= Len(lin) THEN lin[k] ELSE NoOff]

\* a push that takes a record wherever it ends
ExceedsMaxPosNever(ix, wend) == FALSE

\* a record that ends at wend exceeds max_pos (the error table: InvalidRecord)
ExceedsMaxPos(ix, wend) == WLess(hts_bin_maxpos(ix.min_shift, ix.n_lvls), wend)

\* whether push accepts the record (step 1)
PushValid(ix, tid, beg, end, voff) ==
    /\ ix.z.finished = 0
    /\ tid >= 0
    /\ beg < end
    /\ end <= 0 \/ ~ExceedsMaxPos(ix, W64(end))
    /\ voff >= ix.z.last_off
    /\ tid > ix.z.last_tid \/ (tid = ix.z.last_tid /\ beg >= ix.z.last_coor)

\* hts_idx_push(idx, tid, beg, end, offset, is_mapped): the return value and
\* the index afterwards
hts_idx_push(ix, tid, beg, end, voff, is_mapped) ==
    LET Counted(ix3, bin) ==
            [ix3 EXCEPT
               !.lidx[tid + 1] = TouchLeaves(@, first_leaf(ix, beg), first_leaf(ix, end - 1), voff),
               !.z.off_beg = IF tid # ix.z.last_tid THEN voff ELSE @,
               !.z.off_end = voff,
               !.z.n_mapped = (IF tid # ix.z.last_tid THEN 0 ELSE @)
                              + (IF is_mapped = 1 THEN 1 ELSE 0),
               !.z.n_unmapped = (IF tid # ix.z.last_tid THEN 0 ELSE @)
                                + (IF is_mapped = 1 THEN 0 ELSE 1),
               !.z.last_bin = bin, !.z.last_tid = tid,
               !.z.last_coor = beg, !.z.last_off = voff]
        Run(ix2, bin) ==
            IF tid # ix2.z.save_tid \/ bin # ix2.z.save_bin
            THEN Counted([FlushRun(ix2, voff) EXCEPT !.z.save_off = voff, !.z.save_bin = bin,
                                                    !.z.save_tid = tid], bin)
            ELSE Counted(ix2, bin)
    IN IF ~PushValid(ix, tid, beg, end, voff) THEN [ret |-> -1, idx |-> ix]
       ELSE [ret |-> 0,
             idx |-> Run(GrowTo(IF tid # ix.z.last_tid THEN WriteMeta(ix) ELSE ix, tid),
                         bin_for_interval(ix, beg, end))]

----------------------------------------------------------------------------
(* Records whose coordinates need an int64_t: the same parse and the same  *)
(* push, the coordinates in limbs.                                         *)

\* a - 1 for a > 0
WPred(a) ==
    IF a[1] > 0 THEN <<a[1] - 1, a[2], a[3], a[4]>>
    ELSE IF a[2] > 0 THEN <<LimbBase - 1, a[2] - 1, a[3], a[4]>>
    ELSE IF a[3] > 0 THEN <<LimbBase - 1, LimbBase - 1, a[3] - 1, a[4]>>
    ELSE <<LimbBase - 1, LimbBase - 1, LimbBase - 1, a[4] - 1>>

\* tbx_parse1 under the VCF preset on a line of the four columns CHROM, POS,
\* ID and REF, POS a decimal number: lines 163-164 (the name), 187-204 (the
\* begin), 227-230 (the reference allele), 358-368 (the end and the return
\* value). The line buffer is not written to.
tbx_parse1_wide(cf, line) ==
    LET t1 == strchr(line, 0, TAB)
        t2 == strchr(line, t1 + 1, TAB)
        t3 == strchr(line, t2 + 1, TAB)
        reflen == Len(line) - (t3 + 1)
        Ended(beg, end0) ==
            LET end1 == IF reflen > 0 THEN WMulAdd(beg, 1, reflen).val ELSE end0
                tmp == WMulAdd(beg, 1, reflen).val
                end == IF WLess(end1, tmp) THEN tmp ELSE end1
            IN [ret |-> IF WNeg(beg) \/ WNeg(end) THEN -1 ELSE 0,
                intv |-> [ss |-> 0, se |-> t1, beg |-> beg, end |-> end],
                line |-> line]
        Begun(v) == Ended(IF v.neg \/ v.mag = W64(0) THEN W64(0) ELSE WPred(v.mag), W64(1))
    IN IF At(line, SkipWs(line, t1 + 1)) \notin Digits
       THEN [ret |-> -1, intv |-> [ss |-> 0, se |-> t1, beg |-> W64(0), end |-> W64(0)],
             line |-> line]
       ELSE Begun(strtoll64(line, t1 + 1))

\* get_intv(tbx, str, intv, is_add) on such a line (lines 371-401)
get_intv_wide(d, cf, line, is_add, fail) ==
    LET Named(p, g) ==
            [ret |-> IF g.ret < 0 THEN -2
                     ELSE IF ~WNeg(p.intv.beg) /\ ~WNeg(p.intv.end) THEN 0 ELSE -1,
             intv |-> p.intv, tid |-> g.ret, dict |-> g.dict,
             line |-> Poke(Poke(p.line, p.intv.se, NUL), p.intv.se, At(p.line, p.intv.se))]
        Parsed1(p) ==
            IF p.ret = 0
            THEN Named(p, get_tid(d, cf.preset, Sub(p.line, p.intv.ss, p.intv.se - p.intv.ss),
                                  is_add, fail))
            ELSE [ret |-> -1, intv |-> p.intv, tid |-> -1, dict |-> d, line |-> p.line]
    IN Parsed1(tbx_parse1_wide(cf, line))

\* whether push accepts such a record (step 1)
PushValidWide(ix, tid, beg, end, voff) ==
    /\ ix.z.finished = 0
    /\ tid >= 0
    /\ WLess(beg, end)
    /\ ~ExceedsMaxPos(ix, end)
    /\ voff >= ix.z.last_off
    /\ tid > ix.z.last_tid \/ (tid = ix.z.last_tid /\ ~WLess(beg, ix.z.last_coor))

\* hts_idx_push(idx, tid, beg, end, offset, is_mapped) on such a record: the
\* return value and the state of the builder afterwards. The bins and the
\* leaves of the record (2^26 of them at 2^40) are not kept.
hts_idx_push_wide(ix, tid, beg, end, voff, is_mapped) ==
    LET Counted(ix3) ==
            [ix3 EXCEPT
               !.z.off_beg = IF tid # ix.z.last_tid THEN voff ELSE @,
               !.z.off_end = voff,
               !.z.n_mapped = (IF tid # ix.z.last_tid THEN 0 ELSE @)
                              + (IF is_mapped = 1 THEN 1 ELSE 0),
               !.z.n_unmapped = (IF tid # ix.z.last_tid THEN 0 ELSE @)
                                + (IF is_mapped = 1 THEN 0 ELSE 1),
               !.z.last_tid = tid, !.z.last_coor = beg, !.z.last_off = voff]
    IN IF ~PushValidWide(ix, tid, beg, end, voff) THEN [ret |-> -1, idx |-> ix]
       ELSE [ret |-> 0,
             idx |-> Counted(GrowTo(IF tid # ix.z.last_tid THEN WriteMeta(ix) ELSE ix, tid))]

\* a finish that leaves the holes of a linear index as they are
FillHolesNot(lin, k, seen) == lin

\* holes of a linear index take the last offset seen before them
RECURSIVE FillHoles(_, _, _)
FillHoles(lin, k, seen) ==
    IF k > Len(lin) THEN lin
    ELSE IF lin[k] = NoOff THEN FillHoles([lin EXCEPT ![k] = seen], k + 1, seen)
    ELSE FillHoles(lin, k + 1, lin[k])

\* a chunk list with chunk c put before the first chunk that begins later
RECURSIVE InsertSorted(_, _)
InsertSorted(cs, c) ==
    IF cs = <<>> THEN <<c>>
    ELSE IF c[1] < cs[1][1] THEN <<c>> \o cs
    ELSE <<cs[1]>> \o InsertSorted(Tail(cs), c)

RECURSIVE SortChunks(_)
SortChunks(cs) == IF cs = <<>> THEN <<>> ELSE InsertSorted(SortChunks(Tail(cs)), cs[1])

\* (a, b) + (c, d) merge into (a, max(b, d)) when b >= c
RECURSIVE Coalesce(_)
Coalesce(cs) ==
    IF Len(cs) < 2 THEN cs
    ELSE IF cs[1][2] >= cs[2][1]
    THEN Coalesce(<<<<cs[1][1], IF cs[1][2] < cs[2][2] THEN cs[2][2] ELSE cs[1][2]>>>>
                  \o Tail(Tail(cs)))
    ELSE <<cs[1]>> \o Coalesce(Tail(cs))

\* the level of bin b
bin_level(ix, b) == CHOOSE lvl \in 0..ix.n_lvls : first_bin(lvl) <= b /\ b < first_bin(lvl + 1)

\* loff of bin b: the least offset its leaves hold in the linear index
bin_loff(ix, lin, b) ==
    LET offs == {lin[k] : k \in {j \in 1..Len(lin) : lin[j] # NoOff /\ level_bin(ix, bin_level(ix, b), Pow2(ix.min_shift) * (j - 1)) = b}}
    IN IF offs = {} THEN NoOff ELSE CHOOSE o \in offs : \A q \in offs : o <= q

\* the bins of one reference as finish leaves them
FinishBins(ix, bins, lin) ==
    [b \in DOMAIN bins |->
        IF b = meta_bin(ix) THEN bins[b]
        ELSE [loff |-> bin_loff(ix, lin, b), list |-> Coalesce(SortChunks(bins[b].list))]]

\* hts_idx_finish(idx, final_offset): the return value and the index afterwards
hts_idx_finish(ix, final_offset) ==
    LET Filled(ix2, lins) ==
            [ix2 EXCEPT !.lidx = lins,
                        !.bidx = [t \in 1..Len(@) |-> FinishBins(ix, @[t], lins[t])],
                        !.z.finished = 1]
        Flushed(ix2) == Filled(ix2, [t \in 1..Len(ix2.lidx) |-> FillHoles(ix2.lidx[t], 1, NoOff)])
    IN IF ix.z.finished = 1 THEN [ret |-> 0, idx |-> ix]
       ELSE [ret |-> 0, idx |-> Flushed(WriteMeta(FlushRun(ix, final_offset)))]

\* the chunks of the bins bs, bin after bin
RECURSIVE GatherChunks(_, _)
GatherChunks(bins, bs) ==
    IF bs = {} THEN <<>>
    ELSE LET b == CHOOSE x \in bs : \A y \in bs : x <= y
         IN bins[b].list \o GatherChunks(bins, bs \ {b})

\* a pruning that looks at where a chunk begins
RECURSIVE PruneByBegin(_, _)
PruneByBegin(cs, min_off) ==
    IF cs = <<>> THEN <<>>
    ELSE IF cs[1][1] <= min_off THEN PruneByBegin(Tail(cs), min_off)
    ELSE <<cs[1]>> \o PruneByBegin(Tail(cs), min_off)

\* the chunks that end after min_off (step 4 of the query)
RECURSIVE Prune(_, _)
Prune(cs, min_off) ==
    IF cs = <<>> THEN <<>>
    ELSE IF cs[1][2] <= min_off THEN Prune(Tail(cs), min_off)
    ELSE <<cs[1]>> \o Prune(Tail(cs), min_off)

\* L[first_leaf(beg)], 0 where the linear index holds nothing
LinearMin(ix, lin, beg) ==
    IF first_leaf(ix, beg) + 1 <= Len(lin) /\ lin[first_leaf(ix, beg) + 1] # NoOff
    THEN lin[first_leaf(ix, beg) + 1] ELSE 0

\* query(tid, beg, end) on a reference of the index: the chunk list, or the
\* error ReferenceUnknown
hts_idx_query(ix, tid, beg, end) ==
    IF tid < 0 \/ tid >= ix.n THEN [err |-> "ReferenceUnknown", chunks |-> <<>>]
    ELSE [err |-> "none",
          chunks |-> Coalesce(SortChunks(Prune(
                        GatherChunks(ix.bidx[tid + 1],
                                     overlapping_bins(ix, beg, end) \cap DOMAIN ix.bidx[tid + 1]),
                        LinearMin(ix, ix.lidx[tid + 1], beg))))]

----------------------------------------------------------------------------
(* hts_parse_decimal (hts.c; its body is not part of src/): an optional     *)
(* sign, then digits, commas being skipped when HTS_PARSE_THOUSANDS_SEP is  *)
(* set.  *strend is the first byte not consumed, or the start of the        *)
(* string when no digit was read.  Fractions, exponents and k/M/G suffixes  *)
(* are left out: no string of the model holds '.', 'e' or a suffix letter.  *)

RECURSIVE ScanDecimal(_, _, _, _, _)
ScanDecimal(s, p, n, digits, thousands) ==
    LET c == At(s, p) IN
    IF c \in Digits THEN ScanDecimal(s, p + 1, n * 10 + DigitVal(c), digits + 1, thousands)
    ELSE IF c = "," /\ thousands THEN ScanDecimal(s, p + 1, n, digits, thousands)
    ELSE [n |-> n, digits |-> digits, p |-> p]

hts_parse_decimal(s, str, flags) ==
    LET p0 == SkipWs(s, str)
        signed == At(s, p0) \in {"+", "-"}
        r == ScanDecimal(s, IF signed THEN p0 + 1 ELSE p0, 0, 0,
                         "THOUSANDS_SEP" \in flags)
    IN [val |-> IF At(s, p0) = "-" THEN -r.n ELSE r.n,
        strend |-> IF r.digits > 0 THEN r.p ELSE str]

----------------------------------------------------------------------------
(* hts_parse_region *)

\* stands for the library's largest position (INT64-sized in the code): larger
\* than every number a string of the model can spell
HTS_POS_MAX == 1000000000

\* *tid, *beg, *end hold the caller's values (-9 here) until the call sets them
NoOut == [called |-> FALSE, ret |-> NULL, tid |-> -9, beg |-> -9, end |-> -9]

RegIdle ==
    /\ reg = <<>>
    /\ rflags = {}
    /\ rout = NoOut

NoIntv == [ss |-> NULL, se |-> NULL, beg |-> -9, end |-> -9, tid |-> -9]
NoPCall == [fn |-> "none", ret |-> 0, is_add |-> 0]

ParseIdle ==
    /\ kstr = <<>>
    /\ kstr0 = <<>>
    /\ tintv = NoIntv
    /\ pcall = NoPCall
    /\ rec = [kind |-> "none"]

NoIdx == [fmt |-> -1]
NoPushed == [recs |-> <<>>, final |-> -1]
NoQuery == [fn |-> "none", ret |-> 0, k |-> 0, chunks |-> <<>>]

IdxIdle ==
    /\ idx = NoIdx
    /\ pushed = NoPushed
    /\ qout = NoQuery

NoFp == [lines |-> <<>>, pos |-> 0, tell |-> 0, err |-> FALSE, items |-> <<>>]
NoBld == [pc |-> "none"]
NoFile == [written |-> FALSE]
NoLoaded == [ret |-> "none"]

BuildIdle ==
    /\ fp = NoFp
    /\ bld = NoBld
    /\ calls = <<>>
    /\ saved = NoFile
    /\ loaded = NoLoaded

\* memchr / strchr: the first offset in [from, to) holding c, or NULL
RECURSIVE FirstAt(_, _, _, _)
FirstAt(s, c, from, to) ==
    IF from >= to THEN NULL
    ELSE IF At(s, from) = c THEN from
    ELSE FirstAt(s, c, from + 1, to)

\* hts_memrchr: the last offset in [from, to) holding c, or NULL
RECURSIVE LastAt(_, _, _, _)
LastAt(s, c, from, to) ==
    IF from >= to THEN NULL
    ELSE IF At(s, to - 1) = c THEN to - 1
    ELSE LastAt(s, c, from, to - 1)

\* the second getid() call of the unquoted branch: whether the pre-colon
\* prefix is a name as well (lines 828-841)
PrefixResolvesNever(getid, prefix) == FALSE
PrefixResolves(getid, prefix) == getid[prefix] >= 0

\* "*beg = hts_parse_decimal(colon+1, &hyphen, flags) - 1" (line 865)
BegFromDecimalRaw(v) == v
BegFromDecimal(v) == v - 1

\* the coordinates after the colon (lines 863-901); out holds *tid, *beg, *end
ParseCoords(s, colon, s_end, flags, out) ==
    LET d1 == hts_parse_decimal(s, colon + 1, flags)
        beg == BegFromDecimal(d1.val)
        hyphen == d1.strend
        h == At(s, hyphen)
    IN
    IF beg < 0 /\ beg # -1 /\ h = "-" /\ At(s, colon + 1) # NUL
    THEN [out EXCEPT !.ret = NULL, !.beg = beg]
    ELSE IF beg < 0 /\ (h \in Digits \/ h = NUL \/ h = ",")
    THEN [out EXCEPT !.ret = s_end, !.beg = 0,
                     !.end = IF beg = -1 THEN HTS_POS_MAX ELSE -(beg + 1)]
    ELSE IF beg < -1
    THEN [out EXCEPT !.ret = NULL, !.beg = beg]
    ELSE
    IF h = NUL \/ ("LIST" \in flags /\ h = ",")
    THEN LET end0 == IF "ONE_COORD" \in flags THEN beg + 1 ELSE HTS_POS_MAX
             end == IF end0 = 0 THEN HTS_POS_MAX ELSE end0
         IN [out EXCEPT !.ret = IF beg >= end THEN NULL ELSE s_end,
                        !.beg = beg, !.end = end]
    ELSE IF h = "-"
    THEN LET d2 == hts_parse_decimal(s, hyphen + 1, flags)
             h2 == At(s, d2.strend)
             end == IF d2.val = 0 THEN HTS_POS_MAX ELSE d2.val
         IN IF h2 # NUL /\ h2 # ","
            THEN [out EXCEPT !.ret = NULL, !.beg = beg, !.end = d2.val]
            ELSE [out EXCEPT !.ret = IF beg >= end THEN NULL ELSE s_end,
                             !.beg = beg, !.end = end]
    ELSE [out EXCEPT !.ret = NULL, !.beg = beg]

\* hts_parse_region(s, tid, beg, end, getid, hdr, flags): str is s, getid the
\* name lookup (a function from strings to tid or -1), out the caller's
\* *tid, *beg, *end before the call.  The result is out with ret, the offset
\* returned (NULL on failure), and the three outputs as the call leaves them.
hts_parse_region(str, flagsIn, getid, out) ==
    LET len == Len(str)
        flags == IF "LIST" \in flagsIn THEN flagsIn \ {"THOUSANDS_SEP"}
                 ELSE flagsIn \cup {"THOUSANDS_SEP"}
        braced == At(str, 0) = "{"
        close == FirstAt(str, "}", 0, len)
    IN
    IF braced /\ close = NULL THEN [out EXCEPT !.ret = NULL, !.tid = -1]
    ELSE
    LET s == IF braced THEN 1 ELSE 0
        quoted == IF braced THEN 1 ELSE 0
        comma == IF "LIST" \in flags
                 THEN FirstAt(str, ",", IF braced THEN close ELSE 0, len)
                 ELSE NULL
        s_len == IF comma # NULL THEN comma - s ELSE len - s
        s_end == IF comma # NULL THEN comma + 1 ELSE len
        colon == IF braced
                 THEN (IF At(str, close + 1) = ":" THEN close + 1 ELSE NULL)
                 ELSE LastAt(str, ":", s, s + s_len)
    IN
    IF colon = NULL
    THEN LET t == getid[Sub(str, s, s_len - quoted)] IN
         [out EXCEPT !.ret = IF t >= 0 THEN s_end ELSE NULL, !.tid = t,
                     !.beg = 0, !.end = HTS_POS_MAX]
    ELSE
    LET whole == IF quoted = 0 THEN getid[Sub(str, s, s_len)] ELSE -1
        out1 == IF quoted = 0
                THEN [out EXCEPT !.tid = whole, !.beg = 0, !.end = HTS_POS_MAX]
                ELSE out
    IN
    IF quoted = 0 /\ whole >= 0
    THEN IF PrefixResolves(getid, Sub(str, s, colon - s))
         THEN [out1 EXCEPT !.ret = NULL, !.tid = -1]
         ELSE [out1 EXCEPT !.ret = s_end]
    ELSE
    LET t == getid[Sub(str, s, colon - s - quoted)]
        out2 == [out1 EXCEPT !.tid = t]
    IN
    IF t < 0 THEN [out2 EXCEPT !.ret = NULL]
    ELSE ParseCoords(str, colon, s_end, flags, out2)

----------------------------------------------------------------------------
(* Specification SpecRegion: hts_parse_region over region strings *)

MaxTail == 4

RECURSIVE SeqsUpTo(_, _)
SeqsUpTo(S, n) ==
    IF n = 0 THEN {<<>>}
    ELSE LET shorter == SeqsUpTo(S, n - 1) IN
         shorter \cup {Append(t, c) : t \in shorter, c \in S}

NameA == <<"a">>
NameA1 == <<"a", ":", "1">>
NameB == <<"b">>

RegHeads ==
    LET ns == {NameA, NameA1, NameB} IN
    ns \cup {<<"{">> \o n \o <<"}">> : n \in ns} \cup {<<"{">> \o NameA}

RegTails == SeqsUpTo({":", "-", "0", "1", "2", ","}, MaxTail)

RegStrings == {h \o t : h \in RegHeads, t \in RegTails}

RegFlagSets == SUBSET {"ONE_COORD", "LIST"}

\* the dictionaries a build leaves: the names of a sequence, added in order
RECURSIVE DictOf(_, _)
DictOf(names, preset) ==
    IF names = <<>> THEN NullDict
    ELSE get_tid(DictOf(SubSeq(names, 1, Len(names) - 1), preset), preset,
                 names[Len(names)], 1, "none").dict

RegDictOrders == {<<NameA>>, <<NameA, NameA1>>, <<NameA1, NameB>>}

\* every substring of the region string, mapped through tbx_name2id
GetId(d, preset, str) ==
    [x \in {SubSeq(str, i, j) : i \in 1..(Len(str) + 1), j \in 0..Len(str)} |->
        tbx_name2id(d, preset, x)]

InitRegion ==
    /\ conf = MkConf(TBX_VCF, 1, 2, 0)
    /\ \E names \in RegDictOrders :
          /\ dict = DictOf(names, TBX_VCF)
          /\ order = names
    /\ last = NoCall
    /\ seq = NoSeq
    /\ reg \in RegStrings
    /\ rflags \in RegFlagSets
    /\ rout = NoOut
    /\ ParseIdle
    /\ IdxIdle
    /\ BuildIdle

HtsParseRegion ==
    /\ ~rout.called
    /\ rout' = [hts_parse_region(reg, rflags, GetId(dict, conf.preset, reg), rout)
                   EXCEPT !.called = TRUE]
    /\ UNCHANGED <<dictVars, reg, rflags, parseVars, idxVars, buildVars>>

NextRegion == HtsParseRegion

SpecRegion == InitRegion /\ [][NextRegion]_vars

----------------------------------------------------------------------------
(* Specification SpecDict: get_tid and tbx_seqnames on one tbx_t *)

DictNames == {<<"a">>, <<"b">>, <<"a", ":", "1">>, <<"c">>}
DictPresets == {TBX_GENERIC, TBX_VCF, TBX_GAF, TBX_UCSC}
AllocFails == {"none", "init", "put", "strdup"}

InitDict ==
    /\ \E p \in DictPresets : conf = MkConf(p, 1, 2, 0)
    /\ dict = NullDict
    /\ order = <<>>
    /\ last = NoCall
    /\ seq = NoSeq
    /\ RegIdle
    /\ ParseIdle
    /\ IdxIdle
    /\ BuildIdle

GetTid(ss, is_add, fail) ==
    LET r == get_tid(dict, conf.preset, ss, is_add, fail) IN
    /\ dict' = r.dict
    /\ last' = [op |-> "get_tid", ss |-> ss, is_add |-> is_add, fail |-> fail,
                ret |-> r.ret, before |-> dict]
    /\ order' = IF ss \in DOMAIN r.dict.map /\ ss \notin DOMAIN dict.map
                THEN Append(order, ss) ELSE order
    /\ UNCHANGED <<conf, seq, regVars, parseVars, idxVars, buildVars>>

TbxSeqnames ==
    LET r == tbx_seqnames(dict) IN
    /\ seq' = [called |-> TRUE, n |-> r.n, names |-> r.names, asserts |-> r.asserts]
    /\ last' = [NoCall EXCEPT !.op = "tbx_seqnames", !.before = dict]
    /\ UNCHANGED <<conf, dict, order, regVars, parseVars, idxVars, buildVars>>

NextDict ==
    \/ \E ss \in DictNames, is_add \in {0, 1}, fail \in AllocFails :
          GetTid(ss, is_add, fail)
    \/ TbxSeqnames

SpecDict == InitDict /\ [][NextDict]_vars

----------------------------------------------------------------------------
(* Specification SpecParse: tbx_parse1 and get_intv on one line *)

MaxPos == 2
MaxRefLen == 2
MaxEnd == 4
MaxSv == 5
MaxFmtLen == 4
MaxV == 3

Rep(c, n) == [k \in 1..n |-> c]

RECURSIVE Join(_, _)
Join(fs, sep) ==
    IF fs = <<>> THEN <<>>
    ELSE IF Len(fs) = 1 THEN fs[1]
    ELSE fs[1] \o sep \o Join(Tail(fs), sep)

Dot == <<".">>
Lit_DEL == <<"<", "D", "E", "L", ">">>
Lit_GT == <<"G", "T">>

\* a VCF data line, by content: POS, the length of REF, the ALT alleles, the
\* INFO keys END (-1: no key, -2: "END=.") and SVLEN (<<>>: no key), whether
\* END precedes SVLEN, whether a key "CI=0,<n>" with a comma in its value ends
\* INFO, the FORMAT keys and the LEN value of each sample
VcfAlts == {<<"T">>, <<"NON_REF">>, <<"T", "DEL">>, <<"DEL", "DEL">>, <<"DEL", "STAR">>}
VcfSvlens == {<<>>, <<-MaxSv>>, <<1, -MaxSv>>}
VcfFormats ==
    {[keys |-> "none", lens |-> <<>>], [keys |-> "GT", lens |-> <<0>>],
     [keys |-> "GT:LEN", lens |-> <<MaxFmtLen>>],
     [keys |-> "LEN:GT", lens |-> <<1, MaxFmtLen>>]}

\* the order of the keys matters only when both are there, the closing key
\* only after SVLEN
VcfRecs ==
    {r \in [kind : {"vcf"}, pos : 0..MaxPos, reflen : 1..MaxRefLen, alts : VcfAlts,
            end : -2..MaxEnd, endFirst : BOOLEAN, svlen : VcfSvlens, tail : BOOLEAN,
            fmt : VcfFormats] :
        /\ r.svlen = <<>> => r.endFirst /\ ~r.tail
        /\ r.end = -1 => r.endFirst}

AlleleText(a) ==
    CASE a = "T" -> <<"T">> [] a = "DEL" -> Lit_DEL [] a = "STAR" -> Lit_STAR
      [] a = "NON_REF" -> Lit_NON_REF

InfoText(r) ==
    LET e == IF r.end = -1 THEN <<>>
             ELSE IF r.end = -2 THEN <<Lit_END \o Dot>>
             ELSE <<Lit_END \o Dec(r.end)>>
        v == IF r.svlen = <<>> THEN <<>>
             ELSE <<Lit_SVLEN \o Join([k \in 1..Len(r.svlen) |-> SDec(r.svlen[k])], <<",">>)>>
        t == IF r.tail THEN <<<<"C", "I", "=", "0", ",">> \o Dec(MaxSv + MaxEnd)>>
             ELSE <<>>
        keys == (IF r.endFirst THEN e \o v ELSE v \o e) \o t
    IN IF keys = <<>> THEN Dot ELSE Join(keys, <<";">>)

SampleText(keys, len) ==
    IF keys = "GT" THEN <<"0">>
    ELSE IF keys = "GT:LEN" THEN <<"0", ":">> \o Dec(len)
    ELSE Dec(len) \o <<":", "0">>

FormatText(keys) ==
    IF keys = "GT" THEN Lit_GT
    ELSE IF keys = "GT:LEN" THEN Lit_GT \o <<":">> \o Lit_LEN
    ELSE Lit_LEN \o <<":">> \o Lit_GT

VcfLine(r) ==
    LET samples == [k \in 1..Len(r.fmt.lens) |-> SampleText(r.fmt.keys, r.fmt.lens[k])]
        fmt == IF r.fmt.keys = "none" THEN <<>> ELSE <<FormatText(r.fmt.keys)>> \o samples
    IN Join(<<NameA, Dec(r.pos), Dot, Rep("A", r.reflen),
              Join([k \in 1..Len(r.alts) |-> AlleleText(r.alts[k])], <<",">>), Dot, Dot, InfoText(r)>>
            \o fmt, <<TAB>>)

\* a line of three columns for the GENERIC preset, under any choice of columns
GenTexts == {NameA} \cup {SDec(v) : v \in -1..MaxV}
GenRecs ==
    [kind : {"generic"}, preset : {TBX_GENERIC, TBX_GENERIC + TBX_UCSC},
     sc : 1..3, bc : 1..3, ec : 0..3, f : [1..3 -> GenTexts]]

\* a SAM line: POS and CIGAR
SamCigars == {<<"*">>, <<"2", "M">>, <<"1", "M", "2", "D", "1", "m">>, <<"3", "S">>,
              <<"2", "M", "1", "N", "1", "I">>}
SamRecs == [kind : {"sam"}, pos : 0..MaxPos, cigar : SamCigars]
SamLine(r) == Join(<<<<"r">>, <<"0">>, NameA, Dec(r.pos), <<"9">>, r.cigar>>, <<TAB>>)

\* a GAF line: the path column
GafPaths == {<<>>, <<">", "0">>, <<">", "1", "<", "2">>, <<">", "2", ">", "1", "0">>, <<"*">>}
GafRecs == [kind : {"gaf"}, path : GafPaths]
GafLine(r) == Join(<<<<"r">>, <<"1">>, <<"0">>, <<"1">>, <<"+">>, r.path>>, <<TAB>>)

ParseRecs == VcfRecs \cup GenRecs \cup SamRecs \cup GafRecs

RecConf(r) ==
    CASE r.kind = "vcf" -> MkConf(TBX_VCF, 1, 2, 0)
      [] r.kind = "sam" -> MkConf(TBX_SAM, 3, 4, 0)
      [] r.kind = "gaf" -> MkConf(TBX_GAF, 1, 6, 0)
      [] r.kind = "generic" -> MkConf(r.preset, r.sc, r.bc, r.ec)

RecLine(r) ==
    CASE r.kind = "vcf" -> VcfLine(r)
      [] r.kind = "sam" -> SamLine(r)
      [] r.kind = "gaf" -> GafLine(r)
      [] r.kind = "generic" -> Join(<<r.f[1], r.f[2], r.f[3]>>, <<TAB>>)

InitParse ==
    /\ rec \in ParseRecs
    /\ conf = RecConf(rec)
    /\ kstr = RecLine(rec)
    /\ kstr0 = kstr
    /\ tintv = NoIntv
    /\ pcall = NoPCall
    /\ dict = DictOf(<<NameB>>, conf.preset)
    /\ order = <<NameB>>
    /\ last = NoCall
    /\ seq = NoSeq
    /\ RegIdle
    /\ IdxIdle
    /\ BuildIdle

TbxParse1 ==
    /\ pcall.fn = "none"
    /\ \E r \in {tbx_parse1(conf, Len(kstr), kstr)} :
          /\ kstr' = r.line
          /\ tintv' = [ss |-> r.intv.ss, se |-> r.intv.se, beg |-> r.intv.beg,
                       end |-> r.intv.end, tid |-> tintv.tid]
          /\ pcall' = [fn |-> "tbx_parse1", ret |-> r.ret, is_add |-> 0]
    /\ UNCHANGED <<dictVars, regVars, kstr0, rec, idxVars, buildVars>>

GetIntv(is_add) ==
    /\ pcall.fn = "none"
    /\ \E r \in {get_intv(dict, conf, kstr, is_add, "none")} :
          /\ kstr' = r.line
          /\ tintv' = [ss |-> r.intv.ss, se |-> r.intv.se, beg |-> r.intv.beg,
                       end |-> r.intv.end, tid |-> r.tid]
          /\ pcall' = [fn |-> "get_intv", ret |-> r.ret, is_add |-> is_add]
          /\ dict' = r.dict
          /\ order' = IF kh_size(r.dict) > kh_size(dict)
                      THEN Append(order, Sub(kstr, r.intv.ss, r.intv.se - r.intv.ss))
                      ELSE order
    /\ UNCHANGED <<conf, last, seq, regVars, kstr0, rec, idxVars, buildVars>>

NextParse ==
    \/ TbxParse1
    \/ \E is_add \in {0, 1} : GetIntv(is_add)

SpecParse == InitParse /\ [][NextParse]_vars

----------------------------------------------------------------------------
(* Specification SpecIdx: records pushed into the builder, finish, query *)

IdxMinShift == 1
IdxNLvls == 1
MaxTid == 1
MaxCoord == 4
MaxVoff == 2
MaxPush == 3
MaxSpan == 2

InitIdx ==
    /\ idx = hts_idx_init(HTS_FMT_CSI, 0, IdxMinShift, IdxNLvls)
    /\ pushed = NoPushed
    /\ qout = NoQuery
    /\ DictIdle
    /\ RegIdle
    /\ ParseIdle
    /\ BuildIdle

\* the offsets a caller hands to push: that of the record before, the next
\* one, and one that lies before it
PushVoffs == (idx.z.last_off - 1)..(idx.z.last_off + 1) \cap 0..MaxVoff

HtsIdxPush(tid, beg, end, voff) ==
    /\ Len(pushed.recs) < MaxPush
    /\ \E r \in {hts_idx_push(idx, tid, beg, end, voff, 1)} :
          /\ idx' = r.idx
          /\ pushed' = IF r.ret = 0
                       THEN [pushed EXCEPT !.recs = Append(@, [tid |-> tid, beg |-> beg,
                                                               end |-> end, voff |-> voff])]
                       ELSE pushed
          /\ qout' = [fn |-> "push", ret |-> r.ret, k |-> 0, chunks |-> <<>>]
    /\ UNCHANGED <<dictVars, regVars, parseVars, buildVars>>

HtsIdxFinish(final_offset) ==
    /\ idx.z.finished = 0
    /\ \E r \in {hts_idx_finish(idx, final_offset)} :
          /\ idx' = r.idx
          /\ pushed' = [pushed EXCEPT !.final = final_offset]
          /\ qout' = [fn |-> "finish", ret |-> r.ret, k |-> 0, chunks |-> <<>>]
    /\ UNCHANGED <<dictVars, regVars, parseVars, buildVars>>

\* query(r.tid, r.beg, r.end) for the k-th accepted record r
HtsIdxQuery(k) ==
    /\ idx.z.finished = 1
    /\ k \in 1..Len(pushed.recs)
    /\ \E r \in {hts_idx_query(idx, pushed.recs[k].tid, pushed.recs[k].beg, pushed.recs[k].end)} :
          qout' = [fn |-> "query", ret |-> IF r.err = "none" THEN 0 ELSE -1, k |-> k,
                   chunks |-> r.chunks]
    /\ UNCHANGED <<idx, pushed, dictVars, regVars, parseVars, buildVars>>

NextIdx ==
    \/ \E tid \in 0..MaxTid, beg \in 0..MaxCoord, voff \in PushVoffs :
          \E end \in beg..(beg + MaxSpan) : HtsIdxPush(tid, beg, end, voff)
    \/ \E final_offset \in {idx.z.last_off, idx.z.last_off + 1} : HtsIdxFinish(final_offset)
    \/ \E k \in 1..MaxPush : HtsIdxQuery(k)

SpecIdx == InitIdx /\ [][NextIdx]_vars

----------------------------------------------------------------------------
(* Specification SpecBuild: tbx_index_build3 over one stream of lines *)


MaxLines == 3

\* 2^32 - 256 and 2^32 - 255: the largest length six levels of a CSI index
\* with min_shift 14 hold, and the first that needs a seventh
Len6 == <<65280, 65535, 0, 0>>
Len7 == <<65281, 65535, 0, 0>>
\* 2^62 and 2^64 - 1
LenHuge == <<0, 0, 0, 16384>>
LenOver == <<65535, 65535, 65535, 65535>>

LenItem(w) == [kind |-> "len", len |-> w]
DataItem(name, pos) == [kind |-> "data", name |-> name, pos |-> pos]
HdrItem == [kind |-> "hdr"]
BadItem == [kind |-> "bad"]

VcfItems == {LenItem(Len6), LenItem(Len7), LenItem(LenHuge),
             DataItem(NameA, 1), DataItem(NameA, 3), DataItem(NameB, 2)}
SamItems == {LenItem(W64(5)), LenItem(LenOver), DataItem(NameA, 1), BadItem}
GenItems == {HdrItem, DataItem(NameA, 1), DataItem(NameA, 3), DataItem(NameB, 2), BadItem}

VcfText(it) ==
    CASE it.kind = "len" ->
            Lit_contig \o <<"=", "<", "I", "D", "=", "a", ",">> \o Lit_length \o <<"=">>
            \o WDec(it.len) \o <<">">>
      [] it.kind = "hdr" -> <<"#", "#", "x">>
      [] it.kind = "data" -> Join(<<it.name, Dec(it.pos), Dot, <<"A">>>>, <<TAB>>)
      [] it.kind = "bad" -> Join(<<NameA, <<"x">>>>, <<TAB>>)

SamText(it) ==
    CASE it.kind = "len" -> Lit_SQ \o <<TAB, "S", "N", ":", "a">> \o Lit_LN \o WDec(it.len)
      [] it.kind = "hdr" -> <<"@", "C", "O">>
      [] it.kind = "data" ->
            Join(<<<<"r">>, <<"0">>, it.name, Dec(it.pos), <<"9">>, <<"1", "M">>>>, <<TAB>>)
      [] it.kind = "bad" -> Join(<<<<"r">>, <<"0">>, NameA, <<"x">>>>, <<TAB>>)

GenText(it) ==
    CASE it.kind = "hdr" -> <<"#", "x">>
      [] it.kind = "data" -> Join(<<it.name, Dec(it.pos), Dec(it.pos + 1)>>, <<TAB>>)
      [] it.kind = "bad" -> Join(<<NameA, <<"x">>, <<"1">>>>, <<TAB>>)

BuildConfs ==
    {MkConf(TBX_VCF, 1, 2, 0), [MkConf(TBX_SAM, 3, 4, 0) EXCEPT !.meta_char = "@"],
     MkConf(TBX_GENERIC, 1, 2, 3), [MkConf(TBX_GENERIC, 1, 2, 3) EXCEPT !.line_skip = 1]}

ConfItems(cf) ==
    IF cf.preset = TBX_VCF THEN VcfItems ELSE IF cf.preset = TBX_SAM THEN SamItems ELSE GenItems

ItemText(cf, it) ==
    IF cf.preset = TBX_VCF THEN VcfText(it)
    ELSE IF cf.preset = TBX_SAM THEN SamText(it) ELSE GenText(it)

MinShifts == {0, 14}

\* how a build treats a signed overflow
Overflows == {"wrap", "trap"}

ConfInputs(cf) ==
    {[conf |-> cf, items |-> its, lines |-> [k \in 1..Len(its) |-> ItemText(cf, its[k])],
      min_shift |-> ms, ub |-> ub, err |-> err] :
        ms \in MinShifts, ub \in Overflows, err \in BOOLEAN,
        its \in SeqsUpTo(ConfItems(cf), MaxLines)}

BuildInputs == UNION {ConfInputs(cf) : cf \in BuildConfs}

----------------------------------------------------------------------------
(* tbx_set_meta (lines 431-463) *)

\* the characters a configuration takes as meta_char, with their codes
MetaChars == {"#", "@", NUL}
CharCode(c) == CASE c = "#" -> 35 [] c = "@" -> 64 [] c = NUL -> 0

\* the character of a code; the code itself when it is none of MetaChars
CodeChar(n) == IF \E c \in MetaChars : CharCode(c) = n
               THEN CHOOSE c \in MetaChars : CharCode(c) = n ELSE n

\* a uint32_t as its four bytes, most significant first
BE32(v) == <<(v \div 16777216) % 256, (v \div 65536) % 256, (v \div 256) % 256, v % 256>>

\* a uint32_t as its four bytes, least significant first
LE32(v) == <<v % 256, (v \div 256) % 256, (v \div 65536) % 256, (v \div 16777216) % 256>>

\* the names of the dictionary in tid order, each with its NUL (lines 443-459)
RECURSIVE NamesBlock(_, _)
NamesBlock(d, tid) ==
    IF tid >= kh_size(d) THEN <<>>
    ELSE (CHOOSE k \in DOMAIN d.map : d.map[k] = tid) \o <<NUL>> \o NamesBlock(d, tid + 1)

\* tbx_set_meta(tbx): the return value and the index with its meta block;
\* fail tells whether a malloc is refused
tbx_set_meta(cf, d, ix, fail) ==
    LET Block(nm) ==
            [ix EXCEPT !.meta =
                [l_meta |-> 28 + Len(nm),
                 x |-> LE32(cf.preset) \o LE32(cf.sc) \o LE32(cf.bc) \o LE32(cf.ec)
                       \o LE32(CharCode(cf.meta_char)) \o LE32(cf.line_skip)
                       \o LE32(Len(nm)),
                 names |-> nm]]
    IN IF fail THEN [ret |-> -1, idx |-> ix]
       ELSE [ret |-> 0, idx |-> Block(NamesBlock(d, 0))]

----------------------------------------------------------------------------
(* tbx_index (lines 503-566) and tbx_index_build3 (lines 582-596), step by *)
(* step: the entry, one turn of the loop per line, the end of the stream.  *)

\* bgzf_getline(fp, '\n', &str): the line read and the stream after it
bgzf_getline(f) ==
    [ret |-> Len(f.lines[f.pos + 1]),
     str |-> f.lines[f.pos + 1],
     fp |-> [f EXCEPT !.pos = @ + 1, !.tell = @ + Len(f.lines[f.pos + 1]) + 1]]

\* the record of a call, as the log keeps it
Call(fn, ret, lineno) == [fn |-> fn, ret |-> ret, lineno |-> lineno]

\* "goto fail"
BuildFail(b) == [b EXCEPT !.pc = "fail"]

\* a build that goes on after a refused line
RefusedNever(ret) == FALSE

\* "< 0" of lines 546-548: get_intv or hts_idx_push refused the line
Refused(ret) == ret < 0

\* lines 513-518: the locals of tbx_index after its entry
IndexEntry(b) ==
    [b EXCEPT !.pc = "loop", !.tbx = "tbx",
              !.min_shift = IF b.min_shift_arg > 0 THEN b.min_shift_arg ELSE 14,
              !.n_lvls = IF b.min_shift_arg > 0
                         THEN (TBX_MAX_SHIFT - b.min_shift_arg + 2) \div 3 ELSE 5,
              !.fmt = IF b.min_shift_arg > 0 THEN HTS_FMT_CSI ELSE HTS_FMT_TBI]

\* lines 521-530: max_ref_len after a line was looked at as a header line
HeaderScan(cf, b, str) ==
    IF At(str, 0) = cf.meta_char /\ b.fmt = HTS_FMT_CSI
    THEN (IF cf.preset = TBX_SAM THEN adjust_max_ref_len_sam(str, b.max_ref_len)
          ELSE IF cf.preset = TBX_VCF THEN adjust_max_ref_len_vcf(str, b.max_ref_len)
          ELSE b.max_ref_len)
    ELSE b.max_ref_len

\* a loop that forgets line_skip
IsHeaderMetaOnly(cf, lineno, str) == At(str, 0) = cf.meta_char

\* line 531: the line is skipped as a header line
IsHeader(cf, lineno, str) == lineno <= cf.line_skip \/ At(str, 0) = cf.meta_char

\* lines 536-540: n_lvls of a CSI index before the first record, and how
\* adjust_n_lvls ended
FirstLevels(b) ==
    IF b.fmt = HTS_FMT_CSI
    THEN adjust_n_lvls(b.min_shift, b.n_lvls,
                       IF b.max_ref_len = W64(0) THEN DefaultMaxRefLen ELSE b.max_ref_len,
                       b.ub)
    ELSE [exit |-> "return", n_lvls |-> b.n_lvls]

InitBuild ==
    /\ \E item \in BuildInputs :
          /\ conf = item.conf
          /\ fp = [lines |-> item.lines, pos |-> 0, tell |-> 0, err |-> item.err,
                   items |-> item.items]
          /\ bld = [pc |-> "open", min_shift_arg |-> item.min_shift, ub |-> item.ub,
                    tbx |-> "none", min_shift |-> 0, n_lvls |-> 0, fmt |-> -1,
                    lineno |-> 0, first |-> 0, last_off |-> 0, max_ref_len |-> W64(0),
                    adjusts |-> 0, rv |-> 0, wide |-> FALSE]
    /\ dict = NullDict
    /\ order = <<>>
    /\ last = NoCall
    /\ seq = NoSeq
    /\ calls = <<>>
    /\ saved = NoFile
    /\ loaded = NoLoaded
    /\ RegIdle
    /\ ParseIdle
    /\ IdxIdle

\* lines 587-590: bgzf_open and the check of the compression
TbxIndexBuild3Open(outcome) ==
    /\ bld.pc = "open"
    /\ bld' = IF outcome = "ok" THEN [bld EXCEPT !.pc = "enter"]
              ELSE [bld EXCEPT !.pc = "done", !.rv = IF outcome = "noopen" THEN -1 ELSE -2]
    /\ UNCHANGED <<dictVars, regVars, parseVars, idxVars, fp, calls, saved, loaded>>

\* lines 513-518; callocfail: calloc returns NULL
TbxIndexEnter(callocfail) ==
    /\ bld.pc = "enter"
    /\ bld' = IF callocfail THEN [bld EXCEPT !.pc = "returned", !.tbx = "NULL"]
              ELSE IndexEntry(bld)
    /\ UNCHANGED <<dictVars, regVars, parseVars, idxVars, fp, calls, saved, loaded>>

\* the rest of a turn of the loop for a data line (lines 545-550), the index
\* being there; b.wide tells that the coordinates of the build are in limbs
DataLine(b, f, str, ix, log, fail) ==
    \E g \in {IF b.wide THEN get_intv_wide(dict, conf, str, 1, fail)
               ELSE get_intv(dict, conf, str, 1, fail)} :
        /\ kstr' = g.line
        /\ tintv' = [ss |-> g.intv.ss, se |-> g.intv.se, beg |-> g.intv.beg,
                     end |-> g.intv.end, tid |-> g.tid]
        /\ dict' = g.dict
        /\ order' = IF kh_size(g.dict) > kh_size(dict)
                    THEN Append(order, Sub(str, g.intv.ss, g.intv.se - g.intv.ss))
                    ELSE order
        /\ IF Refused(g.ret)
           THEN /\ bld' = BuildFail(b)
                /\ idx' = ix
                /\ calls' = Append(log, Call("get_intv", g.ret, b.lineno))
           ELSE \E p \in {IF b.wide
                           THEN hts_idx_push_wide(ix, g.tid, g.intv.beg, g.intv.end, f.tell, 1)
                           ELSE hts_idx_push(ix, g.tid, g.intv.beg, g.intv.end, f.tell, 1)} :
                   /\ idx' = p.idx
                   /\ calls' = log \o <<Call("get_intv", g.ret, b.lineno),
                                        Call("hts_idx_push", p.ret, b.lineno)>>
                   /\ bld' = IF Refused(p.ret) THEN BuildFail(b) ELSE b

\* one turn of the while loop (lines 519-551) on the next line of the stream;
\* fail: the allocation get_tid is refused, initfail: hts_idx_init returns NULL
TbxIndexLine(fail, initfail) ==
    /\ bld.pc = "loop"
    /\ fp.pos < Len(fp.lines)
    /\ \E r \in {bgzf_getline(fp)} :
       \E b \in {[bld EXCEPT !.lineno = @ + 1,
                             !.max_ref_len = HeaderScan(conf, bld, r.str)]} :
          /\ fp' = r.fp
          /\ IF IsHeader(conf, b.lineno, r.str)
             THEN /\ bld' = [b EXCEPT !.last_off = r.fp.tell]
                  /\ kstr' = r.str
                  /\ UNCHANGED <<tintv, dict, order, idx, calls>>
             ELSE IF b.first = 0
             THEN \E a \in {FirstLevels(b)} :
                     IF a.exit # "return"
                     THEN /\ bld' = [b EXCEPT !.pc = a.exit, !.adjusts = @ + 1]
                          /\ kstr' = r.str
                          /\ UNCHANGED <<tintv, dict, order, idx, calls>>
                     ELSE IF initfail
                     THEN /\ bld' = BuildFail([b EXCEPT !.n_lvls = a.n_lvls])
                          /\ calls' = Append(calls, Call("hts_idx_init", -1, b.lineno))
                          /\ kstr' = r.str
                          /\ UNCHANGED <<tintv, dict, order, idx>>
                     ELSE DataLine([b EXCEPT !.n_lvls = a.n_lvls, !.first = 1,
                                             !.adjusts = IF b.fmt = HTS_FMT_CSI THEN @ + 1 ELSE @],
                                   r.fp, r.str,
                                   hts_idx_init(b.fmt, b.last_off, b.min_shift, a.n_lvls),
                                   Append(calls, Call("hts_idx_init", 0, b.lineno)), fail)
             ELSE DataLine(b, r.fp, r.str, idx, calls, fail)
    /\ UNCHANGED <<conf, last, seq, regVars, kstr0, pcall, rec, pushed, qout, saved, loaded>>

\* an end of the stream that always makes an index
IdxMissingAlways(ix) == TRUE

\* "!tbx->idx" of line 553: no data line made the index
IdxMissing(ix) == ix = NoIdx

\* the end of the stream (lines 552-560); eoffail names the call that fails:
\* "none", "init" (hts_idx_init), "dict" (kh_init), "finish", "meta"
TbxIndexEof(eoffail) ==
    /\ bld.pc = "loop"
    /\ fp.pos = Len(fp.lines)
    /\ LET init == IdxMissing(idx)
           ix0 == IF init THEN hts_idx_init(bld.fmt, bld.last_off, bld.min_shift, bld.n_lvls)
                  ELSE idx
           log0 == IF init THEN Append(calls, Call("hts_idx_init",
                                                   IF eoffail = "init" THEN -1 ELSE 0,
                                                   bld.lineno))
                   ELSE calls
       IN IF fp.err
          THEN /\ bld' = BuildFail(bld)
               /\ UNCHANGED <<idx, dict, calls>>
          ELSE IF init /\ eoffail = "init"
          THEN /\ bld' = BuildFail(bld)
               /\ calls' = log0
               /\ UNCHANGED <<idx, dict>>
          ELSE IF ~dict.alloc /\ eoffail = "dict"
          THEN /\ bld' = BuildFail(bld)
               /\ idx' = ix0
               /\ calls' = log0
               /\ UNCHANGED dict
          ELSE \E d \in {[dict EXCEPT !.alloc = TRUE]} :
               \E f \in {hts_idx_finish(ix0, fp.tell)} :
                  /\ dict' = d
                  /\ IF eoffail = "finish"
                     THEN /\ bld' = BuildFail(bld)
                          /\ idx' = ix0
                          /\ calls' = Append(log0, Call("hts_idx_finish", -1, bld.lineno))
                     ELSE \E m \in {tbx_set_meta(conf, d, f.idx, eoffail = "meta")} :
                            /\ idx' = m.idx
                            /\ calls' = log0 \o <<Call("hts_idx_finish", f.ret, bld.lineno),
                                                  Call("tbx_set_meta", m.ret, bld.lineno)>>
                            /\ bld' = IF m.ret # 0 THEN BuildFail(bld)
                                      ELSE [bld EXCEPT !.pc = "returned"]
    /\ UNCHANGED <<conf, order, last, seq, regVars, parseVars, pushed, qout, fp, saved, loaded>>

\* the label fail (lines 562-565): tbx_destroy and return NULL
TbxIndexFail ==
    /\ bld.pc = "fail"
    /\ bld' = [bld EXCEPT !.pc = "returned", !.tbx = "NULL"]
    /\ idx' = NoIdx
    /\ dict' = NullDict
    /\ UNCHANGED <<conf, order, last, seq, regVars, parseVars, pushed, qout, fp, calls, saved, loaded>>

\* lines 591-595: the index is saved when tbx_index returned one, and the
\* tbx_t destroyed; saveret is what hts_idx_save_as returns
TbxIndexBuild3Close(saveret) ==
    /\ bld.pc = "returned"
    /\ IF bld.tbx = "NULL"
       THEN /\ bld' = [bld EXCEPT !.pc = "done", !.rv = -1]
            /\ UNCHANGED <<calls, saved, idx, dict>>
       ELSE /\ bld' = [bld EXCEPT !.pc = "done", !.rv = saveret]
            /\ calls' = Append(calls, Call("hts_idx_save_as", saveret, bld.lineno))
            /\ saved' = [written |-> saveret = 0,
                         fmt |-> IF bld.min_shift_arg > 0 THEN HTS_FMT_CSI ELSE HTS_FMT_TBI,
                         idx |-> idx]
            /\ idx' = NoIdx
            /\ dict' = NullDict
    /\ UNCHANGED <<conf, order, last, seq, regVars, parseVars, pushed, qout, fp, loaded>>

NextBuild ==
    \/ \E outcome \in {"ok", "noopen", "notbgzf"} : TbxIndexBuild3Open(outcome)
    \/ \E callocfail \in BOOLEAN : TbxIndexEnter(callocfail)
    \/ \E fail \in AllocFails, initfail \in BOOLEAN : TbxIndexLine(fail, initfail)
    \/ \E eoffail \in {"none", "init", "dict", "finish", "meta"} : TbxIndexEof(eoffail)
    \/ TbxIndexFail
    \/ \E saveret \in {0, -1} : TbxIndexBuild3Close(saveret)

SpecBuild == InitBuild /\ [][NextBuild]_vars

----------------------------------------------------------------------------
(* Specification SpecWide: tbx_index_build3 over a VCF stream of one       *)
(* record far from the origin, after at most one header line, with no      *)
(* allocation and no I/O failure.                                          *)

\* 2^40, 2^38 and 2^38 + 1
Pos40 == <<0, 0, 256, 0>>
Pos38 == <<0, 0, 64, 0>>
Pos38p == <<1, 0, 64, 0>>

\* 2^38 - 256 and 2^38 - 255: the largest length eight levels of a CSI index
\* with min_shift 14 hold, and the first that needs a ninth
Len8 == <<65280, 65535, 63, 0>>
Len9 == <<65281, 65535, 63, 0>>
\* 2^41 - 256: the largest length nine levels hold
Len9Last == <<65280, 65535, 511, 0>>

WideItem(name, pos) == [kind |-> "wide", name |-> name, pos |-> pos]

WideText(it) ==
    IF it.kind = "wide" THEN Join(<<it.name, WDec(it.pos), Dot, <<"A">>>>, <<TAB>>)
    ELSE VcfText(it)

WideHeaders ==
    {<<>>, <<HdrItem>>} \cup
    {<<LenItem(w)>> : w \in {Len8, Len9, Pos40, Len9Last}}

WidePositions == {W64(1), Pos38, Pos38p, Pos40}

WideInputs ==
    {[items |-> hd \o <<WideItem(NameA, pos)>>, min_shift |-> ms, ub |-> ub] :
        hd \in WideHeaders, pos \in WidePositions, ms \in MinShifts, ub \in Overflows}

InitWide ==
    /\ \E item \in WideInputs :
          /\ fp = [lines |-> [k \in 1..Len(item.items) |-> WideText(item.items[k])],
                   pos |-> 0, tell |-> 0, err |-> FALSE, items |-> item.items]
          /\ bld = [pc |-> "open", min_shift_arg |-> item.min_shift, ub |-> item.ub,
                    tbx |-> "none", min_shift |-> 0, n_lvls |-> 0, fmt |-> -1,
                    lineno |-> 0, first |-> 0, last_off |-> 0, max_ref_len |-> W64(0),
                    adjusts |-> 0, rv |-> 0, wide |-> TRUE]
    /\ conf = MkConf(TBX_VCF, 1, 2, 0)
    /\ dict = NullDict
    /\ order = <<>>
    /\ last = NoCall
    /\ seq = NoSeq
    /\ calls = <<>>
    /\ saved = NoFile
    /\ loaded = NoLoaded
    /\ RegIdle
    /\ ParseIdle
    /\ IdxIdle

NextWide ==
    \/ TbxIndexBuild3Open("ok")
    \/ TbxIndexEnter(FALSE)
    \/ TbxIndexLine("none", FALSE)
    \/ TbxIndexEof("none")
    \/ TbxIndexFail
    \/ TbxIndexBuild3Close(0)

SpecWide == InitWide /\ [][NextWide]_vars

----------------------------------------------------------------------------
(* index_load (lines 608-653) *)

\* le_to_u32 and le_to_i32 on the four bytes at offset p of the block
le_to_u32(x, p) == x[p + 1] + 256 * x[p + 2] + 65536 * x[p + 3] + 16777216 * x[p + 4]
le_to_i32(x, p) ==
    x[p + 1] + 256 * x[p + 2] + 65536 * x[p + 3]
    + 16777216 * (IF x[p + 4] >= 128 THEN x[p + 4] - 256 ELSE x[p + 4])

\* strlen(nm + p)
RECURSIVE strlen(_, _)
strlen(nm, p) == IF At(nm, p) = NUL THEN 0 ELSE 1 + strlen(nm, p + 1)

\* the loop of lines 639-644 from offset p of the names block: the dictionary
\* it leaves, ok being FALSE when a get_tid failed
RECURSIVE LoadNames(_, _, _, _, _, _)
LoadNames(d, preset, nm, p, l_nm, fail) ==
    LET Added(g, n) ==
            IF g.ret < 0 THEN [ok |-> FALSE, dict |-> g.dict]
            ELSE LoadNames(g.dict, preset, nm, p + n + 1, l_nm, fail)
    IN IF p < l_nm
       THEN Added(get_tid(d, preset, Sub(nm, p, strlen(nm, p)), 1, fail), strlen(nm, p))
       ELSE [ok |-> TRUE, dict |-> d]

\* index_load on the index hts_idx_load3 read; loadfail: calloc or
\* hts_idx_load3 returns NULL, fail: the allocation get_tid is refused
index_load(ix, loadfail, fail) ==
    LET Failed == [ret |-> "NULL", conf |-> MkConf(0, 0, 0, 0), dict |-> NullDict,
                   loadfail |-> loadfail, fail |-> fail]
        Named(cf, r) ==
            IF r.ok THEN [ret |-> "tbx", conf |-> cf, dict |-> r.dict,
                          loadfail |-> loadfail, fail |-> fail]
            ELSE Failed
        Header(m, cf, l_nm) ==
            IF l_nm > m.l_meta - 28 THEN Failed
            ELSE Named(cf, LoadNames(NullDict, cf.preset, m.names, 0, l_nm, fail))
        Meta(m) ==
            IF m = NoMeta \/ m.l_meta < 28 THEN Failed
            ELSE Header(m, [preset |-> le_to_i32(m.x, 0), sc |-> le_to_i32(m.x, 4),
                            bc |-> le_to_i32(m.x, 8), ec |-> le_to_i32(m.x, 12),
                            meta_char |-> CodeChar(le_to_i32(m.x, 16)),
                            line_skip |-> le_to_i32(m.x, 20)],
                        le_to_u32(m.x, 24))
    IN IF loadfail THEN Failed ELSE Meta(ix.meta)

----------------------------------------------------------------------------
(* Specification SpecMeta: tbx_set_meta on a built tbx_t, then index_load *)

MetaPresets == {TBX_GENERIC, TBX_SAM, TBX_VCF, TBX_GAF, TBX_GENERIC + TBX_UCSC}
MetaColumns == {<<1, 2, 0>>, <<3, 4, 0>>, <<1, 2, 3>>, <<300, 70000, 2147483647>>}
MetaSkips == {0, 1, -1, 16777216}
MetaConfs ==
    {[preset |-> p, sc |-> c[1], bc |-> c[2], ec |-> c[3], meta_char |-> mc, line_skip |-> ls] :
        p \in MetaPresets, c \in MetaColumns, mc \in MetaChars, ls \in MetaSkips}

\* the names of the records of a build, in the order they came
MetaDictOrders ==
    {<<>>, <<NameA>>, <<NameA, NameA1>>, <<NameA1, NameB>>, <<NameB, NameA>>,
     <<NameB, <<>>, NameA>>}

InitMeta ==
    /\ conf \in MetaConfs
    /\ \E names \in MetaDictOrders :
          /\ dict = [DictOf(names, conf.preset) EXCEPT !.alloc = TRUE]
          /\ order = IF PresetFmt(conf.preset) = TBX_GAF THEN <<>> ELSE names
    /\ last = NoCall
    /\ seq = NoSeq
    /\ idx = hts_idx_finish(hts_idx_init(HTS_FMT_TBI, 0, 14, 5), 0).idx
    /\ pushed = NoPushed
    /\ qout = NoQuery
    /\ RegIdle
    /\ ParseIdle
    /\ BuildIdle

\* line 558: tbx_set_meta(tbx); fail: a malloc returns NULL
TbxSetMeta(fail) ==
    /\ idx.meta = NoMeta
    /\ loaded = NoLoaded
    /\ idx' = tbx_set_meta(conf, dict, idx, fail).idx
    /\ UNCHANGED <<dictVars, regVars, parseVars, pushed, qout, buildVars>>

\* index_load on the index as it stands
IndexLoad(loadfail, fail) ==
    /\ loaded = NoLoaded
    /\ loaded' = index_load(idx, loadfail, fail)
    /\ UNCHANGED <<dictVars, regVars, parseVars, idxVars, fp, bld, calls, saved>>

NextMeta ==
    \/ \E fail \in BOOLEAN : TbxSetMeta(fail)
    \/ \E loadfail \in BOOLEAN, fail \in AllocFails : IndexLoad(loadfail, fail)

SpecMeta == InitMeta /\ [][NextMeta]_vars

----------------------------------------------------------------------------
(* Claims about the reference dictionary *)

NonGAF == PresetFmt(conf.preset) # TBX_GAF

\* C3: on a non-GAF index, after any sequence of get_tid calls the dictionary
\* maps its N distinct names bijectively onto 0..N-1, each name's tid is the
\* number of distinct names added before it, an add of a present name returns
\* its tid and changes nothing, a lookup of an absent name returns -1 and adds
\* nothing, and tbx_seqnames returns N names with no gap (its assertions hold).
C3_DictBijection ==
    NonGAF =>
      /\ {dict.map[k] : k \in DOMAIN dict.map} = 0..(kh_size(dict) - 1)
      /\ Len(order) = kh_size(dict)
      /\ \A i \in 1..Len(order) : dict.map[order[i]] = i - 1
      /\ (last.op = "get_tid" /\ last.fail = "none") =>
            /\ (last.is_add = 1 /\ last.ss \in DOMAIN last.before.map) =>
                  /\ last.ret = last.before.map[last.ss]
                  /\ dict.map = last.before.map
            /\ (last.is_add = 1 /\ last.ss \notin DOMAIN last.before.map) =>
                  /\ last.ret = kh_size(last.before)
                  /\ DOMAIN dict.map = DOMAIN last.before.map \cup {last.ss}
            /\ (last.is_add = 0 /\ last.ss \notin DOMAIN last.before.map) =>
                  /\ last.ret = -1
                  /\ dict.map = last.before.map
            /\ (last.is_add = 0 /\ last.ss \in DOMAIN last.before.map) =>
                  last.ret = last.before.map[last.ss]
      /\ LET r == tbx_seqnames(dict) IN
            /\ r.asserts
            /\ r.n = kh_size(dict)
            /\ \A tid \in 0..(r.n - 1) :
                  /\ r.names[tid + 1] \in DOMAIN dict.map
                  /\ dict.map[r.names[tid + 1]] = tid
      /\ (last.op = "tbx_seqnames") =>
            /\ seq.asserts
            /\ seq.n = kh_size(dict)
            /\ seq.names = order

\* three names are in the dictionary, the colon-bearing one added last, and
\* tbx_seqnames has just listed them
C3_Witness ==
    /\ NonGAF
    /\ kh_size(dict) = 3
    /\ last.op = "tbx_seqnames"
    /\ seq.n = 3
    /\ NameA1 \in DOMAIN dict.map
    /\ dict.map[NameA1] = 2

----------------------------------------------------------------------------
(* Claims about hts_parse_region *)

MaxNum == 12

Known(x) == x \in DOMAIN dict.map

\* the region item: the text before the first comma in list mode, else all of it
RegItem ==
    IF "LIST" \in rflags /\ \E i \in 1..Len(reg) : reg[i] = ","
    THEN SubSeq(reg, 1, (CHOOSE i \in 1..Len(reg) :
                           reg[i] = "," /\ \A j \in 1..(i - 1) : reg[j] # ",") - 1)
    ELSE reg

HasColon(x) == \E i \in 1..Len(x) : x[i] = ":"

\* the text before the rightmost colon of x
BeforeLastColon(x) ==
    SubSeq(x, 1, (CHOOSE i \in 1..Len(x) :
                    x[i] = ":" /\ \A j \in (i + 1)..Len(x) : x[j] # ":") - 1)

\* C4: an unbraced region holding a colon, whose whole text is a reference name
\* and whose text before the rightmost colon is a reference name too, is
\* refused as ambiguous: NULL is returned and *tid is -1.
C4_AmbiguousFails ==
    (/\ rout.called
     /\ Len(reg) > 0 /\ reg[1] # "{"
     /\ HasColon(RegItem)
     /\ Known(RegItem)
     /\ Known(BeforeLastColon(RegItem)))
    => (rout.ret = NULL /\ rout.tid = -1)

\* "a:1" was parsed against a dictionary holding both "a" and "a:1"
C4_Witness ==
    /\ rout.called
    /\ reg = NameA1
    /\ Known(NameA) /\ Known(NameA1)
    /\ rout.ret = NULL

RangeText(a, b) == <<":">> \o Dec(a) \o <<"-">> \o Dec(b)

\* C5: for a known name X and 1 <= a <= b, "X:a-b" (when the whole string is
\* not itself a name) and "{X}:a-b" parse to (tid(X), a - 1, b); the braced
\* name is the text between the braces, colons included.
C5_OneBasedToHalfOpen ==
    rout.called =>
      \A X \in DOMAIN dict.map : \A a \in 1..MaxNum : \A b \in a..MaxNum :
         /\ (reg = X \o RangeText(a, b) /\ ~Known(reg)) =>
               (/\ rout.ret = Len(reg) /\ rout.tid = dict.map[X]
                /\ rout.beg = a - 1 /\ rout.end = b)
         /\ (reg = <<"{">> \o X \o <<"}">> \o RangeText(a, b)) =>
               (/\ rout.ret = Len(reg) /\ rout.tid = dict.map[X]
                /\ rout.beg = a - 1 /\ rout.end = b)

\* "{a:1}:1-2" was parsed against a dictionary that knows "a:1"
C5_Witness ==
    /\ rout.called
    /\ reg = <<"{">> \o NameA1 \o <<"}">> \o RangeText(1, 2)
    /\ Known(NameA1)
    /\ rout.tid = dict.map[NameA1] /\ rout.beg = 0 /\ rout.end = 2

\* C6: with HTS_PARSE_ONE_COORD, "X:-N" yields (tid, 0, N) and "X:N-" yields
\* (tid, N - 1, HTS_POS_MAX); without it both forms are invalid and the parse
\* returns NULL.
C6_OpenEndedNeedsOneCoord ==
    rout.called =>
      \A X \in DOMAIN dict.map : \A n \in 1..MaxNum :
         /\ (reg = X \o <<":", "-">> \o Dec(n) /\ ~Known(reg)) =>
               IF "ONE_COORD" \in rflags
               THEN (/\ rout.ret # NULL /\ rout.tid = dict.map[X]
                     /\ rout.beg = 0 /\ rout.end = n)
               ELSE rout.ret = NULL
         /\ (reg = X \o <<":">> \o Dec(n) \o <<"-">> /\ ~Known(reg)) =>
               IF "ONE_COORD" \in rflags
               THEN (/\ rout.ret # NULL /\ rout.tid = dict.map[X]
                     /\ rout.beg = n - 1 /\ rout.end = HTS_POS_MAX)
               ELSE rout.ret = NULL

----------------------------------------------------------------------------
(* Claims about tbx_parse1 *)

Parsed(kind) == pcall.fn # "none" /\ pcall.ret = 0 /\ rec.kind = kind

SetMax(S) == CHOOSE x \in S : \A y \in S : y <= x

Abs(x) == IF x < 0 THEN -x ELSE x

\* the begin of a VCF line: POS - 1, not below 0
VcfBeg(r) == IF r.pos < 1 THEN 0 ELSE r.pos - 1

\* the candidates for the end of a VCF line, as the claim lists them
VcfEndCandidates(r) ==
    LET b == VcfBeg(r) IN
    {b + r.reflen}
    \cup {b + Abs(r.svlen[k]) : k \in {j \in 1..Len(r.alts) :
                                            r.alts[j] = "DEL" /\ j <= Len(r.svlen)}}
    \cup (IF r.end > b THEN {r.end} ELSE {})
    \cup (IF r.fmt.keys \in {"GT:LEN", "LEN:GT"}
             /\ \E j \in 1..Len(r.alts) : r.alts[j] \in {"STAR", "NON_REF"}
          THEN {b + r.fmt.lens[k] : k \in 1..Len(r.fmt.lens)} ELSE {})

\* C7: for the VCF preset a successfully parsed line has end equal to the
\* maximum of begin + len(REF), begin + |SVLEN_i| for the symbolic alleles
\* that take their length from SVLEN, INFO/END when present and > begin, and
\* begin + FORMAT/LEN when an ALT is <*> or <NON_REF>; end is never below
\* begin + len(REF).
C7_VcfEndIsMax ==
    Parsed("vcf") =>
        /\ tintv.beg = VcfBeg(rec)
        /\ tintv.end = SetMax(VcfEndCandidates(rec))
        /\ tintv.end >= tintv.beg + rec.reflen

\* the integer a column of a GENERIC line holds
GenHolds(r, col, v) == col \in 1..3 /\ r.f[col] = SDec(v)

\* C8: for the GENERIC preset end is the value of column ec when ec > 0
\* (an end column after the begin column), and with ec = 0 end = begin + 1:
\* a begin column holding v >= 1 parses to [v-1, v) without the UCSC flag and
\* to [v, v+1) with it.
C8_GenericEnd ==
    Parsed("generic") /\ rec.sc \notin {rec.bc, rec.ec} =>
        \A v \in 1..MaxV : GenHolds(rec, rec.bc, v) =>
            LET u == IF PresetUCSC(rec.preset) THEN 1 ELSE 0 IN
            /\ rec.ec > rec.bc =>
                  \A e \in -1..MaxV : GenHolds(rec, rec.ec, e) => tintv.end = e
            /\ rec.ec = 0 => tintv.beg = v - 1 + u /\ tintv.end = v + u

\* C9: whenever tbx_parse1 returns 0, for every preset and every choice of
\* the columns sc, bc, ec, the interval has begin >= 0 and end >= 1.
C9_ClampedInterval ==
    pcall.fn # "none" /\ pcall.ret = 0 => tintv.beg >= 0 /\ tintv.end >= 1

----------------------------------------------------------------------------
(* Claims about the index builder *)

\* the record a query was made for
Queried == pushed.recs[qout.k]

\* the chunks of the bins that overlap the queried record, before pruning
QueryGathered ==
    GatherChunks(idx.bidx[Queried.tid + 1],
                 overlapping_bins(idx, Queried.beg, Queried.end)
                     \cap DOMAIN idx.bidx[Queried.tid + 1])

StrictVoffs ==
    /\ \A j \in 1..(Len(pushed.recs) - 1) : pushed.recs[j].voff < pushed.recs[j + 1].voff
    /\ \A j \in 1..Len(pushed.recs) : pushed.recs[j].voff < pushed.final

----------------------------------------------------------------------------
(* Claims about the build driver *)

\* the calls of the log that refused a line
RefusedCalls ==
    {i \in DOMAIN calls : calls[i].fn \in {"get_intv", "hts_idx_push"} /\ calls[i].ret < 0}

\* C2: when get_intv fails on a data line or hts_idx_push rejects its record,
\* tbx_index stops at that line (no further line is read, no further call is
\* made: neither hts_idx_finish nor tbx_set_meta) and returns NULL, and
\* tbx_index_build3 returns -1 without hts_idx_save_as: nothing is written.
C2_FailedBuildWritesNothing ==
    \A i \in RefusedCalls :
        /\ i = Len(calls)
        /\ fp.pos = calls[i].lineno
        /\ bld.pc \in {"fail", "returned", "done"}
        /\ bld.pc # "fail" => bld.tbx = "NULL"
        /\ saved = NoFile
        /\ bld.pc = "done" => bld.rv = -1

\* a build that ended on a record pushed out of order after an accepted one
C2_Witness ==
    /\ bld.pc = "done"
    /\ \E i \in RefusedCalls :
          /\ calls[i].fn = "hts_idx_push"
          /\ \E j \in 1..(i - 1) : calls[j].fn = "hts_idx_push" /\ calls[j].ret = 0

\* the first line of the stream that is not skipped as a header line, or
\* one past the last line
FirstDataLine ==
    LET data == {k \in 1..Len(fp.lines) : ~IsHeader(conf, k, fp.lines[k])}
    IN IF data = {} THEN Len(fp.lines) + 1
       ELSE CHOOSE k \in data : \A j \in data : k <= j

\* the largest contig length the header lines before the first data line
\* announce; the default of 100G when they announce none
AnnouncedLen ==
    LET lens == {fp.items[k].len : k \in {j \in 1..(FirstDataLine - 1) :
                                            fp.items[j].kind = "len"}}
    IN IF lens = {} THEN DefaultMaxRefLen
       ELSE CHOOSE w \in lens : \A v \in lens : ~WBelow(w, v)

\* 1 << k >= L + 256, in unbounded arithmetic
Reaches(k, L) ==
    LET Sum(r) == IF r.carry # 0 THEN k >= 65
                  ELSE k >= 64 \/ ~WBelow(WPow2(k), r.val)
    IN Sum(WMulAdd(L, 1, 256))

\* the smallest n >= n_lvls with 1 << (min_shift + 3n) >= L + 256
SmallestLevels(min_shift, n_lvls, L) ==
    CHOOSE n \in n_lvls..30 :
        /\ Reaches(min_shift + 3 * n, L)
        /\ \A m \in n_lvls..(n - 1) : ~Reaches(min_shift + 3 * m, L)

\* C10: adjust_n_lvls returns the smallest n >= n_lvls whose span
\* 1 << (min_shift + 3n) is at least L + 256; a CSI build applies it exactly
\* once, before the first record is pushed, to the largest contig length the
\* header announced; a TBI build keeps min_shift 14 and n_lvls 5.
C10_LevelsCoverLongestContig ==
    /\ bld.pc \notin {"hang", "trap"}
    /\ bld.pc # "none" => bld.adjusts <= 1
    /\ (\E i \in DOMAIN calls : calls[i].fn = "hts_idx_push") => bld.first = 1
    /\ bld.pc # "none" /\ bld.first = 1 /\ idx # NoIdx =>
          IF bld.fmt = HTS_FMT_TBI
          THEN idx.min_shift = 14 /\ idx.n_lvls = 5 /\ bld.adjusts = 0
          ELSE /\ bld.adjusts = 1
               /\ idx.min_shift = bld.min_shift_arg
               /\ idx.n_lvls = SmallestLevels(bld.min_shift_arg,
                                              (TBX_MAX_SHIFT - bld.min_shift_arg + 2) \div 3,
                                              AnnouncedLen)

----------------------------------------------------------------------------
(* Claims about the line buffer *)

\* C17: tbx_parse1 and get_intv leave the caller's line buffer as they found
\* it: on every return, success or failure, also after the early exit of a
\* FORMAT column without LEN, the buffer equals the buffer before the call.
C17_LineBufferRestored == pcall.fn # "none" => kstr = kstr0

\* get_intv returned on a VCF line whose ALT list holds a comma and a gVCF
\* allele and whose FORMAT has no LEN key (the early exit)
C17_Witness ==
    /\ pcall.fn = "get_intv"
    /\ rec.kind = "vcf"
    /\ rec.alts = <<"DEL", "STAR">>
    /\ rec.fmt.keys = "GT"
    /\ pcall.ret = 0
    /\ kstr = kstr0

----------------------------------------------------------------------------
(* Claims about the interval hts_parse_region returns *)

\* C16: whenever hts_parse_region succeeds (returns non-NULL), its outputs
\* satisfy tid >= 0 and 0 <= beg < end, for every string and every flag set,
\* also for a first number of 0 ("X:0-5"), an empty range ("X:") and a second
\* number of 0.
C16_SuccessGivesInterval ==
    rout.called /\ rout.ret # NULL =>
        rout.tid >= 0 /\ 0 <= rout.beg /\ rout.beg < rout.end

----------------------------------------------------------------------------
(* Claims about the lines and the calls of tbx_index *)

\* line k of the stream is a header line: one of the first line_skip lines or
\* a line that starts with meta_char
HeaderLine(k) == k <= conf.line_skip \/ fp.items[k].kind \in {"len", "hdr"}

\* the calls of function fn the log holds for line k
CallsAt(fn, k) == {i \in DOMAIN calls : calls[i].fn = fn /\ calls[i].lineno = k}

\* the calls of function fn in the log
CallsOf(fn) == {i \in DOMAIN calls : calls[i].fn = fn}

\* the loop is done with line k without having left for fail
LineDone(k) ==
    \/ k < fp.pos
    \/ k = fp.pos /\ (bld.pc = "loop" \/ (bld.pc \in {"returned", "done"} /\ bld.tbx = "tbx"))

\* C14: a line that starts with meta_char, and each of the first line_skip
\* lines, is never parsed, never pushed and adds no name to the dictionary,
\* wherever it stands in the stream; every other line the loop is done with
\* was parsed once and pushed once, and the lines were taken in input order.
C14_HeaderLinesSkipped ==
    bld.pc \notin {"none", "open", "enter"} =>
        /\ \A k \in 1..fp.pos :
              IF HeaderLine(k)
              THEN CallsAt("get_intv", k) = {} /\ CallsAt("hts_idx_push", k) = {}
              ELSE /\ Cardinality(CallsAt("get_intv", k)) <= 1
                   /\ Cardinality(CallsAt("hts_idx_push", k)) <= 1
                   /\ LineDone(k) =>
                         \E g \in CallsAt("get_intv", k) :
                            /\ calls[g].ret = 0
                            /\ g < Len(calls)
                            /\ calls[g + 1] = Call("hts_idx_push", 0, k)
        /\ \A i, j \in CallsOf("get_intv") \cup CallsOf("hts_idx_push") :
              i < j => calls[i].lineno <= calls[j].lineno
        /\ \A n \in 1..Len(order) :
              \E k \in 1..fp.pos :
                 ~HeaderLine(k) /\ fp.items[k].kind = "data" /\ fp.items[k].name = order[n]

\* a build returned an index for a stream whose first line looks like a
\* record but is one of the line_skip lines, and whose header line comes
\* after the record
C14_Witness ==
    /\ bld.pc = "returned"
    /\ bld.tbx = "tbx"
    /\ conf.line_skip = 1
    /\ fp.pos = 3
    /\ fp.items[1] = DataItem(NameB, 2)
    /\ fp.items[2] = DataItem(NameA, 1)
    /\ fp.items[3] = HdrItem
    /\ order = <<NameA>>
    /\ Cardinality(CallsOf("hts_idx_push")) = 1

\* the place of the only call of fn in the log, 0 when there is none or more
Only(fn) == IF Cardinality(CallsOf(fn)) = 1 THEN CHOOSE i \in CallsOf(fn) : TRUE ELSE 0

\* C15: on every run of tbx_index that returns an index, hts_idx_init is
\* called exactly once and before any hts_idx_push (after the loop for a
\* stream without data lines), hts_idx_finish exactly once and after the last
\* push, tbx_set_meta only after finish; and no push ever follows finish.
C15_BuildLifecycle ==
    /\ \A i \in CallsOf("hts_idx_finish"), j \in CallsOf("hts_idx_push") : j < i
    /\ \A i \in CallsOf("tbx_set_meta") : \E j \in CallsOf("hts_idx_finish") : j < i
    /\ (bld.pc \in {"returned", "done"} /\ bld.tbx = "tbx") =>
          /\ Only("hts_idx_init") # 0
          /\ Only("hts_idx_finish") # 0
          /\ Only("tbx_set_meta") # 0
          /\ calls[Only("hts_idx_init")].ret = 0
          /\ \A j \in CallsOf("hts_idx_push") :
                Only("hts_idx_init") < j /\ j < Only("hts_idx_finish")
          /\ Only("hts_idx_finish") < Only("tbx_set_meta")

\* tbx_index returned an index after two pushes
C15_Witness ==
    /\ bld.pc = "returned"
    /\ bld.tbx = "tbx"
    /\ Cardinality(CallsOf("hts_idx_push")) = 2
    /\ Only("hts_idx_init") = 1

----------------------------------------------------------------------------
(* Claims about the meta block *)

\* the names of a names block, in the order they stand in it
RECURSIVE BlockNames(_, _)
BlockNames(nm, p) ==
    IF p >= Len(nm) THEN <<>>
    ELSE <<Sub(nm, p, strlen(nm, p))>> \o BlockNames(nm, p + strlen(nm, p) + 1)

\* C11: the meta block tbx_set_meta writes (28-byte preamble, the names
\* NUL-terminated in tid order, len_names the sum of length + 1) is accepted
\* by index_load, which restores preset, sc, bc, ec, meta_char and line_skip
\* and the name-to-tid mapping, the tid of a name being its place in the block.
C11_MetaRoundTrip ==
    /\ idx.meta # NoMeta =>
          /\ Len(idx.meta.x) = 28
          /\ idx.meta.l_meta = 28 + Len(idx.meta.names)
          /\ le_to_u32(idx.meta.x, 24) = Len(idx.meta.names)
          /\ Len(BlockNames(idx.meta.names, 0)) = kh_size(dict)
          /\ \A t \in 1..kh_size(dict) :
                /\ BlockNames(idx.meta.names, 0)[t] \in DOMAIN dict.map
                /\ dict.map[BlockNames(idx.meta.names, 0)[t]] = t - 1
    /\ (loaded # NoLoaded /\ idx.meta # NoMeta /\ ~loaded.loadfail /\ loaded.fail = "none") =>
          loaded.ret = "tbx"
    /\ (loaded # NoLoaded /\ loaded.ret = "tbx") =>
          /\ idx.meta # NoMeta
          /\ loaded.conf = conf
          /\ loaded.dict.map = dict.map

\* index_load accepted the block of a dictionary of three names, one of them
\* empty, under a configuration with fields of more than one byte
C11_Witness ==
    /\ loaded # NoLoaded
    /\ loaded.ret = "tbx"
    /\ order = <<NameB, <<>>, NameA>>
    /\ kh_size(loaded.dict) = 3
    /\ loaded.conf.bc = 70000
    /\ loaded.conf.line_skip = -1
    /\ loaded.conf.meta_char = "@"

----------------------------------------------------------------------------
(* Claims about the linear index *)

\* the leaves of reference t (from 1) that a pushed record touched
Touched(t) ==
    {l \in 0..(Len(idx.lidx[t]) - 1) :
        \E j \in 1..Len(pushed.recs) :
            /\ pushed.recs[j].tid = t - 1
            /\ first_leaf(idx, pushed.recs[j].beg) <= l
            /\ l <= first_leaf(idx, pushed.recs[j].end - 1)}

----------------------------------------------------------------------------
(* Claims about a record far from the origin *)

\* the stream ends with one record at position pos, and tbx_index is over
FarRecordDone(pos) ==
    /\ bld.pc \in {"returned", "done"}
    /\ bld.min_shift_arg = 14
    /\ fp.items[Len(fp.items)] = WideItem(NameA, pos)

\* a header line of the stream announces a contig length from lo to hi
Announces(lo, hi) ==
    \E k \in 1..Len(fp.items) :
        /\ fp.items[k].kind = "len"
        /\ ~WLess(fp.items[k].len, lo)
        /\ ~WLess(hi, fp.items[k].len)

\* hts_idx_init came before an accepted push, with levels that cover pos
PushedCovered(pos) ==
    /\ \E i, j \in 1..Len(calls) :
          /\ i < j
          /\ calls[i] = Call("hts_idx_init", 0, bld.lineno)
          /\ calls[j] = Call("hts_idx_push", 0, bld.lineno)
    /\ ~WLess(hts_bin_maxpos(bld.min_shift, bld.n_lvls), pos)
    /\ bld.tbx = "tbx"
    /\ bld.pc = "done" => bld.rv = 0 /\ saved.written /\ saved.idx.n_lvls = bld.n_lvls

====
